---- MODULE Spec2Model ----
(***************************************************************************)
(* A model of the ingestion pipeline of sensor_collector.py: the storage   *)
(* handlers (DatabaseStorage / FlexibleDatabaseStorage), the MQTT message   *)
(* router and its handlers (SensorDataCollector), and the connection       *)
(* retry loop.                                                             *)
(*                                                                         *)
(* JSON values are tagged records ([t |-> "num", v |-> 5], ...), a JSON     *)
(* object is the sequence of its (key, value) pairs, a topic is the        *)
(* sequence of segments that msg.topic.split('/') yields.                  *)
(***************************************************************************)
EXTENDS Integers, Sequences, FiniteSets, TLC

VARIABLES
    storage_handlers,   \* SensorDataCollector.storage_handlers: the list of sinks
    clock,              \* time.time() as read by the next message
    nmsgs,              \* messages delivered to on_message so far
    last,               \* what the last on_message call was given and did
    reconnect_delay,    \* SensorDataCollector.reconnect_delay
    connected,          \* SensorDataCollector.connected
    pc,                 \* where start() is: "retry" (connect_with_retry), "loop"
                        \* (loop_forever), "unwind" (KeyboardInterrupt leaving a
                        \* handler), "stop378" and "stop382" (in stop()), "stopped"
    session,            \* the transport session: "none", "connack", "up", "down"
    sessions,           \* how many times on_connect saw reason code 0
    slept,              \* the delays connect_with_retry has slept, in order
    conn_log,           \* the last connection callback and what it logged
    subscribed,         \* the client.subscribe calls made, each with its session
    folder,             \* cleanup_old_files.py: the path it is given, as the
                        \* file system holds it
    cleanup,            \* cleanup_old_files.py: where the call is and its result
    inspector           \* device_activity_inspector.py: where main() is, and
                        \* what the last check cycle did

vars == <<storage_handlers, clock, nmsgs, last, reconnect_delay, connected,
          pc, session, sessions, slept, conn_log, subscribed,
          folder, cleanup, inspector>>

ingest_vars == <<storage_handlers, clock, nmsgs, last>>
conn_vars == <<reconnect_delay, connected, pc, session, sessions, slept, conn_log,
               subscribed>>
\* the programs that run beside the collector
tool_vars == <<folder, cleanup, inspector>>

-----------------------------------------------------------------------------
(* Bounds of the model *)

MaxMsgs == 2
MaxAttempts == 6
MaxSessions == 2
NumSinks == 2
MaxCleanMsgs == 3
MaxLiveMsgs == 2
MaxEntries == 2
MaxCycles == 2
MaxInspectorMsgs == 3

-----------------------------------------------------------------------------
(* JSON values *)

Num(n) == [t |-> "num", v |-> n]
Str(s) == [t |-> "str", v |-> s]
Null == [t |-> "null"]
\* a JSON object: its (key, value) pairs in document order
Obj(items) == [t |-> "obj", items |-> items]
EmptyDict == Obj(<<>>)
IsObj(x) == x.t = "obj"
IsNum(x) == x.t = "num"

HasKey(d, key) == \E i \in 1..Len(d.items) : d.items[i][1] = key

\* dict.get(key, default)
DictGet(d, key, default) ==
    IF HasKey(d, key)
    THEN d.items[CHOOSE i \in 1..Len(d.items) : d.items[i][1] = key][2]
    ELSE default

Min(a, b) == IF a <= b THEN a ELSE b

-----------------------------------------------------------------------------
(* DatabaseStorage                                                         *)
(*                                                                         *)
(* A sink h is a record: the three tables of its database (devices,        *)
(* sensors, measurements), the serial of sensors.sensor_id, its            *)
(* sensor_id_cache, and the number of pool connections checked out.        *)
(* A fault names the one call site of the sink that raises while the       *)
(* current message is processed ("none": no call fails).  An operation     *)
(* yields the sink after it and raised: whether an exception left it.      *)
(* getconn on a pool that closeall() has closed raises PoolError.          *)
(***************************************************************************)

NewSink == [devices |-> {}, sensors |-> {}, measurements |-> <<>>,
            next_sensor_id |-> 1, sensor_id_cache |-> <<>>,
            checked_out |-> 0, max_used |-> 0, closed |-> FALSE]

Returned(h) == [h |-> h, raised |-> FALSE]
Raised(h) == [h |-> h, raised |-> TRUE]

\* f"{device_id}_{sensor_type}"
CacheKey(device_id, sensor_type) == device_id \o "_" \o sensor_type

\* line 45: SimpleConnectionPool(1, 10, **db_config)
maxconn == 10

\* db_pool.getconn(); max_used records the most connections the pool has had
\* checked out at one time
getconn(h) ==
    [h EXCEPT !.checked_out = @ + 1,
              !.max_used = IF h.checked_out + 1 > @ THEN h.checked_out + 1 ELSE @]

\* a finally clause that does not hand the connection back
putconnSkipped(h) == h

\* db_pool.putconn(conn)
putconn(h) == [h EXCEPT !.checked_out = @ - 1]

\* lines 149-152: db_pool.closeall()
close(h) == [h EXCEPT !.closed = TRUE]

\* SELECT sensor_id FROM sensors WHERE device_id = %s AND sensor_type = %s
SelectSensorRows(h, device_id, sensor_type) ==
    {r \in h.sensors : r.device_id = device_id /\ r.sensor_type = sensor_type}

\* cur.fetchone()[0] of that SELECT: the lowest id when several rows match
FetchOne(rows) ==
    (CHOOSE r \in rows : \A q \in rows : r.sensor_id <= q.sensor_id).sensor_id

\* INSERT INTO devices ... ON CONFLICT (device_id) DO NOTHING
UpsertDeviceKeepsFirst(devices, row) ==
    IF \E r \in devices : r.device_id = row.device_id THEN devices
    ELSE devices \cup {row}

\* INSERT INTO devices ... ON CONFLICT (device_id) DO UPDATE SET ...
UpsertDevice(devices, row) ==
    {r \in devices : r.device_id /= row.device_id} \cup {row}

\* lines 57-59: the row of the announcement
DeviceRow(device_id, payload) ==
    [device_id |-> device_id,
     device_name |-> DictGet(payload, "device_name", Null),
     location |-> DictGet(payload, "device_location", Null),
     firmware_version |-> DictGet(payload, "firmware_version", Null)]

ensure_device_exists(h, fault, device_id, payload) ==
    IF fault = "getconn53" \/ h.closed THEN Raised(h)
    ELSE IF fault = "execute61"
    THEN Returned(putconn(getconn(h)))   \* except: conn.rollback()
    ELSE Returned(putconn([getconn(h) EXCEPT
                     !.devices = UpsertDevice(@, DeviceRow(device_id, payload))]))

\* the row ensure_sensor_exists inserts (lines 95-103); json.dumps(sensor_meta)
\* is kept as the document itself, tagged as the JSONB column's value
SensorRow(sensor_id, device_id, sensor_type, sensor_meta) ==
    [sensor_id |-> sensor_id,
     device_id |-> device_id,
     sensor_type |-> sensor_type,
     location |-> DictGet(sensor_meta, "location", Str("unknown")),
     metadata |-> IF sensor_meta = EmptyDict THEN Null
                  ELSE [t |-> "jsonb", v |-> sensor_meta]]

\* metadata.get / sensor_meta.get raise AttributeError on a non-object
MetadataRaises(metadata, sensor_type) ==
    IF IsObj(metadata) THEN ~IsObj(DictGet(metadata, sensor_type, EmptyDict))
    ELSE TRUE

\* InsertSensor emptying the cache when the commit fails
InsertSensorInvalidates(h, fault, device_id, sensor_type, metadata) ==
    IF fault = "insert99" THEN h
    ELSE IF MetadataRaises(metadata, sensor_type) THEN h
    ELSE IF fault = "commit106"
    THEN [h EXCEPT !.next_sensor_id = @ + 1, !.sensor_id_cache = <<>>]
    ELSE [h EXCEPT
            !.sensors = @ \cup {SensorRow(h.next_sensor_id, device_id, sensor_type,
                                    DictGet(metadata, sensor_type, EmptyDict))},
            !.next_sensor_id = @ + 1,
            !.sensor_id_cache =
                (CacheKey(device_id, sensor_type) :> h.next_sensor_id) @@ @]

\* InsertSensor filling the cache before conn.commit()
InsertSensorCachesBeforeCommit(h, fault, device_id, sensor_type, metadata) ==
    IF fault = "insert99" THEN h
    ELSE IF MetadataRaises(metadata, sensor_type) THEN h
    ELSE IF fault = "commit106"
    THEN [h EXCEPT !.next_sensor_id = @ + 1,
                   !.sensor_id_cache =
                       (CacheKey(device_id, sensor_type) :> h.next_sensor_id) @@ @]
    ELSE [h EXCEPT
            !.sensors = @ \cup {SensorRow(h.next_sensor_id, device_id, sensor_type,
                                    DictGet(metadata, sensor_type, EmptyDict))},
            !.next_sensor_id = @ + 1,
            !.sensor_id_cache =
                (CacheKey(device_id, sensor_type) :> h.next_sensor_id) @@ @]

\* lines 99-109: INSERT ... RETURNING sensor_id, commit, fill the cache
InsertSensor(h, fault, device_id, sensor_type, metadata) ==
    IF fault = "insert99" THEN h
    ELSE IF MetadataRaises(metadata, sensor_type) THEN h
    \* the commit fails: the serial is consumed, the row is rolled back
    ELSE IF fault = "commit106" THEN [h EXCEPT !.next_sensor_id = @ + 1]
    ELSE [h EXCEPT
            !.sensors = @ \cup {SensorRow(h.next_sensor_id, device_id, sensor_type,
                                    DictGet(metadata, sensor_type, EmptyDict))},
            !.next_sensor_id = @ + 1,
            !.sensor_id_cache =
                (CacheKey(device_id, sensor_type) :> h.next_sensor_id) @@ @]

\* EnsureSensorFound without the test of line 94
EnsureSensorFoundAlwaysInsert(h, fault, result, device_id, sensor_type, metadata) ==
    InsertSensor(h, fault, device_id, sensor_type, metadata)

\* EnsureSensorFound rewriting the row it found from the announcement
EnsureSensorFoundUpdates(h, fault, result, device_id, sensor_type, metadata) ==
    IF result = {}
    THEN InsertSensor(h, fault, device_id, sensor_type, metadata)
    ELSE [h EXCEPT
            !.sensors = (@ \ result)
                          \cup {SensorRow(FetchOne(result), device_id, sensor_type,
                                          DictGet(metadata, sensor_type, EmptyDict))},
            !.sensor_id_cache =
                (CacheKey(device_id, sensor_type) :> FetchOne(result)) @@ @]

\* lines 92-111: if not result: insert, else: fill the cache from the row
EnsureSensorFound(h, fault, result, device_id, sensor_type, metadata) ==
    IF result = {}
    THEN InsertSensor(h, fault, device_id, sensor_type, metadata)
    ELSE [h EXCEPT !.sensor_id_cache =
                (CacheKey(device_id, sensor_type) :> FetchOne(result)) @@ @]

ensure_sensor_exists(h, fault, device_id, sensor_type, metadata) ==
    IF fault = "getconn83" \/ h.closed THEN Raised(h)
    ELSE IF fault = "select87"
    THEN Returned(putconn(getconn(h)))   \* except: conn.rollback()
    ELSE Returned(putconn(
             EnsureSensorFound(getconn(h), fault,
                               SelectSensorRows(h, device_id, sensor_type),
                               device_id, sensor_type, metadata)))

\* GetSensorIdFound without line 139
GetSensorIdFoundNoFill(h, result, cache_key) ==
    IF result = {}
    THEN [h |-> putconn(h), raised |-> FALSE, ret |-> 0]
    ELSE [h |-> putconn(h), raised |-> FALSE, ret |-> FetchOne(result)]

\* lines 135-140; ret = 0 stands for None: sensor ids start at 1
GetSensorIdFound(h, result, cache_key) ==
    IF result = {}
    THEN [h |-> putconn(h), raised |-> FALSE, ret |-> 0]
    ELSE [h |-> putconn([h EXCEPT !.sensor_id_cache =
                                      (cache_key :> FetchOne(result)) @@ @]),
          raised |-> FALSE, ret |-> FetchOne(result)]

get_sensor_id(h, fault, device_id, sensor_type) ==
    IF CacheKey(device_id, sensor_type) \in DOMAIN h.sensor_id_cache
    THEN [h |-> h, raised |-> FALSE,
          ret |-> h.sensor_id_cache[CacheKey(device_id, sensor_type)]]
    ELSE IF fault = "getconn127" \/ h.closed
    THEN [h |-> h, raised |-> TRUE, ret |-> 0]
    ELSE IF fault = "select130"
    THEN [h |-> putconn(getconn(h)), raised |-> FALSE, ret |-> 0]
    ELSE GetSensorIdFound(getconn(h), SelectSensorRows(h, device_id, sensor_type),
                          CacheKey(device_id, sensor_type))

-----------------------------------------------------------------------------
(* FlexibleDatabaseStorage *)

\* datetime.datetime.fromtimestamp(ts, tz=datetime.timezone.utc)
fromtimestamp(ts) == [epoch |-> ts, tz |-> "UTC"]

MeasurementRow(timestamp, sensor_id, field_name, reading) ==
    [time |-> timestamp, sensor_id |-> sensor_id, metric_type |-> field_name,
     value |-> reading]

RECURSIVE InsertMeasurements(_, _, _, _, _, _, _)
\* InsertMeasurements without the test of line 184
InsertMeasurementsKeepNull(items, i, n, pending, fault, timestamp, sensor_id) ==
    IF i > Len(items)
    THEN [pending |-> pending, failed |-> fault = "commit190"]
    ELSE InsertMeasurements(items, i + 1, n + 1,
             Append(pending,
                    MeasurementRow(timestamp, sensor_id, items[i][1],
                                   DictGet(items[i][2], "reading", Null))),
             fault, timestamp, sensor_id)

\* The body of the try of store_sensor_data (lines 179-190): the INSERTs of one
\* reading, in the order of values.items(), pending until conn.commit().
\* n counts the INSERTs executed so far.
InsertMeasurements(items, i, n, pending, fault, timestamp, sensor_id) ==
    IF i > Len(items)
    THEN [pending |-> pending, failed |-> fault = "commit190"]
    ELSE IF ~IsObj(items[i][2])
    THEN [pending |-> pending, failed |-> TRUE]   \* field_data.get: AttributeError
    ELSE IF DictGet(items[i][2], "reading", Null) = Null
    THEN InsertMeasurements(items, i + 1, n, pending, fault, timestamp, sensor_id)
    ELSE IF (fault = "insert185" /\ n = 0) \/ (fault = "insert185second" /\ n = 1)
    THEN [pending |-> pending, failed |-> TRUE]
    ELSE InsertMeasurements(items, i + 1, n + 1,
             Append(pending,
                    MeasurementRow(timestamp, sensor_id, items[i][1],
                                   DictGet(items[i][2], "reading", Null))),
             fault, timestamp, sensor_id)

\* EndTransaction on a connection in autocommit mode: every INSERT that was
\* executed stays
EndTransactionAutocommit(h, tx) == [h EXCEPT !.measurements = @ \o tx.pending]

\* conn.commit() of line 190, or except: conn.rollback(), which drops the
\* pending rows
EndTransaction(h, tx) ==
    IF tx.failed THEN h ELSE [h EXCEPT !.measurements = @ \o tx.pending]

\* InsertReading without the except clause of line 194
InsertReadingUncaught(h, fault, sensor_id, timestamp, values) ==
    IF fault \in {"getconn177", "insert185", "insert185second", "commit190"}
    THEN Raised(h)
    ELSE Returned(putconn(EndTransaction(getconn(h),
             InsertMeasurements(values.items, 1, 0, <<>>, fault, timestamp,
                                sensor_id))))

\* lines 177-198
InsertReading(h, fault, sensor_id, timestamp, values) ==
    IF fault = "getconn177" \/ h.closed THEN Raised(h)
    ELSE IF ~IsObj(values)
    THEN Returned(putconn(getconn(h)))   \* values.items(): AttributeError
    ELSE Returned(putconn(EndTransaction(getconn(h),
             InsertMeasurements(values.items, 1, 0, <<>>, fault, timestamp,
                                sensor_id))))

\* StoreAfterRetry raising on the second miss instead of returning
StoreAfterRetryRaises(r3, fault, timestamp, values) ==
    IF r3.raised THEN Raised(r3.h)
    ELSE IF r3.ret = 0 THEN Raised(r3.h)
    ELSE InsertReading(r3.h, fault, r3.ret, timestamp, values)

\* lines 171-176: the second lookup, after the sensor was created
StoreAfterRetry(r3, fault, timestamp, values) ==
    IF r3.raised THEN Raised(r3.h)
    ELSE IF r3.ret = 0 THEN Returned(r3.h)   \* Failed to create sensor
    ELSE InsertReading(r3.h, fault, r3.ret, timestamp, values)

\* line 170-171
StoreAfterCreate(r2, fault, device_id, sensor_type, timestamp, values) ==
    IF r2.raised THEN Raised(r2.h)
    ELSE StoreAfterRetry(get_sensor_id(r2.h, fault, device_id, sensor_type),
                         fault, timestamp, values)

\* StoreAfterLookup checking out the connection of line 177 before the sensor
\* is created and looked up again
StoreAfterLookupNested(r1, fault, device_id, sensor_type, timestamp, values) ==
    IF r1.raised THEN Raised(r1.h)
    ELSE IF r1.ret /= 0
    THEN InsertReading(r1.h, fault, r1.ret, timestamp, values)
    ELSE Returned(putconn(
             StoreAfterCreate(ensure_sensor_exists(getconn(r1.h), fault, device_id,
                                                   sensor_type, EmptyDict),
                              fault, device_id, sensor_type, timestamp, values).h))

\* lines 168-176: if not sensor_id: create the sensor and look it up again
StoreAfterLookup(r1, fault, device_id, sensor_type, timestamp, values) ==
    IF r1.raised THEN Raised(r1.h)
    ELSE IF r1.ret /= 0
    THEN InsertReading(r1.h, fault, r1.ret, timestamp, values)
    ELSE StoreAfterCreate(ensure_sensor_exists(r1.h, fault, device_id,
                                               sensor_type, EmptyDict),
                          fault, device_id, sensor_type, timestamp, values)

store_sensor_data(h, fault, device_id, sensor_type, timestamp, values) ==
    StoreAfterLookup(get_sensor_id(h, fault, device_id, sensor_type),
                     fault, device_id, sensor_type, timestamp, values)

-----------------------------------------------------------------------------
(* SensorDataCollector: the handlers.  hs is storage_handlers, faults[i]   *)
(* the fault of sink i, and a result's raised says that an exception left  *)
(* the call.                                                               *)

List(items) == [t |-> "list", items |-> items]

Put(hs, i, h) == [hs EXCEPT ![i] = h]

\* lines 293-294: for handler in self.storage_handlers: ensure_device_exists
RECURSIVE RegisterDevice(_, _, _, _, _)
RECURSIVE RegisterDeviceNext(_, _, _, _, _, _)
RegisterDeviceNext(r, hs, i, faults, device_id, payload) ==
    IF r.raised THEN [hs |-> Put(hs, i, r.h), raised |-> TRUE]
    ELSE RegisterDevice(Put(hs, i, r.h), i + 1, faults, device_id, payload)

RegisterDevice(hs, i, faults, device_id, payload) ==
    IF i > Len(hs) THEN [hs |-> hs, raised |-> FALSE]
    ELSE RegisterDeviceNext(
             ensure_device_exists(hs[i], faults[i], device_id, payload),
             hs, i, faults, device_id, payload)

\* lines 297-299: for sensor_type in sensors: for handler in storage_handlers
RECURSIVE RegisterSensors(_, _, _, _, _, _, _)
RECURSIVE RegisterSensorsNext(_, _, _, _, _, _, _, _)
RegisterSensorsNext(r, hs, j, i, faults, device_id, sensors, metadata) ==
    IF r.raised THEN [hs |-> Put(hs, i, r.h), raised |-> TRUE]
    ELSE RegisterSensors(Put(hs, i, r.h), j, i + 1, faults, device_id, sensors,
                         metadata)

RegisterSensors(hs, j, i, faults, device_id, sensors, metadata) ==
    IF j > Len(sensors) THEN [hs |-> hs, raised |-> FALSE]
    ELSE IF i > Len(hs)
    THEN RegisterSensors(hs, j + 1, 1, faults, device_id, sensors, metadata)
    ELSE RegisterSensorsNext(
             ensure_sensor_exists(hs[i], faults[i], device_id, sensors[j].v,
                                  metadata),
             hs, j, i, faults, device_id, sensors, metadata)

\* lines 296-299, once every sink has registered the device
RegisterAfterDevice(r, faults, device_id, payload) ==
    IF r.raised THEN r
    ELSE RegisterSensors(r.hs, 1, 1, faults, device_id,
                         DictGet(payload, "sensors", List(<<>>)).items,
                         DictGet(payload, "metadata", EmptyDict))

\* self.devices[device_id] = payload (line 289) is written and never read: it is
\* left out of the state.
handle_capabilities(hs, faults, device_id, payload) ==
    IF ~IsObj(payload)
    THEN [hs |-> hs, raised |-> TRUE]   \* payload.get: AttributeError
    ELSE RegisterAfterDevice(RegisterDevice(hs, 1, faults, device_id, payload),
                             faults, device_id, payload)

\* lines 311-312: for handler in self.storage_handlers: store_sensor_data
RECURSIVE StoreAll(_, _, _, _, _, _, _, _)
RECURSIVE StoreAllNext(_, _, _, _, _, _, _, _, _)
StoreAllNext(r, hs, i, invoked, faults, device_id, sensor_id, timestamp, values) ==
    IF r.raised
    THEN [hs |-> Put(hs, i, r.h), raised |-> TRUE, invoked |-> invoked \cup {i}]
    ELSE StoreAll(Put(hs, i, r.h), i + 1, invoked \cup {i}, faults, device_id,
                  sensor_id, timestamp, values)

StoreAll(hs, i, invoked, faults, device_id, sensor_id, timestamp, values) ==
    IF i > Len(hs)
    THEN [hs |-> hs, raised |-> FALSE, invoked |-> invoked]
    ELSE StoreAllNext(
             store_sensor_data(hs[i], faults[i], device_id, sensor_id, timestamp,
                               values),
             hs, i, invoked, faults, device_id, sensor_id, timestamp, values)

\* except Exception of line 314: nothing leaves handle_sensor_data
CatchAll(r) ==
    [hs |-> r.hs, raised |-> FALSE, invoked |-> r.invoked, caught |-> r.raised]

\* lines 303-315; caught: the except of line 314 ran
handle_sensor_data(hs, faults, device_id, sensor_id, payload, now) ==
    IF ~IsObj(payload)   \* payload.get: AttributeError
    THEN [hs |-> hs, raised |-> FALSE, invoked |-> {}, caught |-> TRUE]
    ELSE IF ~IsNum(DictGet(payload, "timestamp", Num(now)))
    \* fromtimestamp: TypeError
    THEN [hs |-> hs, raised |-> FALSE, invoked |-> {}, caught |-> TRUE]
    ELSE CatchAll(StoreAll(hs, 1, {}, faults, device_id, sensor_id,
                      fromtimestamp(DictGet(payload, "timestamp", Num(now)).v),
                      DictGet(payload, "value", EmptyDict)))

\* lines 319-322: logs only
handle_status(payload, now) ==
    IF IsObj(payload) THEN ~IsNum(DictGet(payload, "timestamp", Num(now)))
    ELSE TRUE

severity_labels == <<"INFO", "WARNING", "ERROR", "CRITICAL">>

\* seq[i] with Python's indexing: 0..len-1 from the front, -1..-len from the
\* back, anything else an IndexError
PyIndex(seq, i) ==
    IF 0 <= i /\ i < Len(seq) THEN [raised |-> FALSE, label |-> seq[i + 1]]
    ELSE IF -Len(seq) <= i /\ i < 0
    THEN [raised |-> FALSE, label |-> seq[Len(seq) + i + 1]]
    ELSE [raised |-> TRUE, label |-> "none"]

\* lines 327-336, error being a dict
ErrorLabel(error, payload, now) ==
    IF ~IsNum(DictGet(payload, "timestamp", Num(now)))
    THEN [raised |-> TRUE, label |-> "none"]
    ELSE IF ~IsNum(DictGet(error, "severity", Num(0)))
    THEN [raised |-> TRUE, label |-> "none"]   \* min(severity, 3): TypeError
    ELSE PyIndex(severity_labels, Min(DictGet(error, "severity", Num(0)).v, 3))

\* lines 326-336
handle_error(payload, now) ==
    IF ~IsObj(payload) THEN [raised |-> TRUE, label |-> "none"]
    ELSE IF ~IsObj(DictGet(payload, "value", EmptyDict))
    THEN [raised |-> TRUE, label |-> "none"]
    ELSE ErrorLabel(DictGet(payload, "value", EmptyDict), payload, now)

-----------------------------------------------------------------------------
(* SensorDataCollector.on_message.  raw is msg.payload: raw.ok says that   *)
(* msg.payload.decode() and json.loads succeed, raw.doc is the document.   *)

\* on_message without its except clauses
NoDispatchRaises(hs, caught) ==
    [hs |-> hs, escaped |-> caught, handler |-> "none", invoked |-> {},
     caught |-> caught, label |-> "none"]

\* lines 263-264 (return) and 282-285 (the except clauses): nothing is dispatched
NoDispatch(hs, caught) ==
    [hs |-> hs, escaped |-> FALSE, handler |-> "none", invoked |-> {},
     caught |-> caught, label |-> "none"]

\* the except clauses of lines 282-285: nothing leaves on_message
AfterCapabilities(r) ==
    [hs |-> r.hs, escaped |-> FALSE, handler |-> "handle_capabilities",
     invoked |-> {}, caught |-> r.raised, label |-> "none"]

AfterSensorData(r) ==
    [hs |-> r.hs, escaped |-> FALSE, handler |-> "handle_sensor_data",
     invoked |-> r.invoked, caught |-> r.caught, label |-> "none"]

\* a status handler that writes the status to every sink
AfterStatusPersists(hs, raised) ==
    [hs |-> [i \in 1..Len(hs) |->
                [hs[i] EXCEPT !.measurements =
                    Append(@, MeasurementRow(fromtimestamp(0), 0, "status", Null))]],
     escaped |-> FALSE, handler |-> "handle_status",
     invoked |-> {}, caught |-> raised, label |-> "none"]

AfterStatus(hs, raised) ==
    [hs |-> hs, escaped |-> FALSE, handler |-> "handle_status",
     invoked |-> {}, caught |-> raised, label |-> "none"]

AfterError(hs, r) ==
    [hs |-> hs, escaped |-> FALSE, handler |-> "handle_error",
     invoked |-> {}, caught |-> r.raised, label |-> r.label]

\* lines 266-280
Dispatch(hs, topic, device_id, message_type, payload, faults, now) ==
    CASE message_type = "capabilities" ->
             AfterCapabilities(handle_capabilities(hs, faults, device_id, payload))
      [] message_type = "sensors" ->
             IF Len(topic) < 4
             THEN NoDispatch(hs, TRUE)   \* topic_parts[3]: IndexError
             ELSE AfterSensorData(handle_sensor_data(hs, faults, device_id,
                                                     topic[4], payload, now))
      [] message_type = "status" ->
             AfterStatus(hs, handle_status(payload, now))
      [] message_type = "error" ->
             AfterError(hs, handle_error(payload, now))
      [] OTHER -> NoDispatch(hs, FALSE)

\* on_message reading the device id from the wrong segment
on_messageFirstSegment(hs, topic, raw, faults, now) ==
    IF Len(topic) < 3 THEN NoDispatch(hs, FALSE)
    ELSE IF ~raw.ok THEN NoDispatch(hs, TRUE)
    ELSE Dispatch(hs, topic, topic[1], topic[3], raw.doc, faults, now)

on_message(hs, topic, raw, faults, now) ==
    IF Len(topic) < 3 THEN NoDispatch(hs, FALSE)
    ELSE IF ~raw.ok THEN NoDispatch(hs, TRUE)   \* json.JSONDecodeError
    ELSE Dispatch(hs, topic, topic[2], topic[3], raw.doc, faults, now)

-----------------------------------------------------------------------------
(* The messages and faults the model delivers *)

DeviceIds == {"a", "a_b"}
SensorTypes == {"c", "b_c"}

Json(doc) == [ok |-> TRUE, doc |-> doc]
BadJson == [ok |-> FALSE]

CapOne ==
    Obj(<< <<"device_name", Str("n1")>>, <<"firmware_version", Str("1.0")>>,
           <<"device_location", Str("lab")>>,
           <<"sensors", List(<<Str("c")>>)>>,
           <<"metadata", Obj(<< <<"c", Obj(<< <<"location", Str("desk")>> >>)>> >>)>> >>)
CapTwo ==
    Obj(<< <<"device_name", Str("n2")>>, <<"firmware_version", Str("2.0")>>,
           <<"device_location", Str("roof")>>,
           <<"sensors", List(<<Str("c"), Str("b_c")>>)>> >>)

Reading(n) == Obj(<< <<"reading", n>> >>)
DataFull ==
    Obj(<< <<"timestamp", Num(1700)>>,
           <<"value", Obj(<< <<"t", Reading(Num(21))>>, <<"h", Reading(Num(40))>> >>)>> >>)
DataNoTs ==
    Obj(<< <<"value", Obj(<< <<"t", Reading(Num(21))>>, <<"h", Reading(Null)>> >>)>> >>)
DataBadTs ==
    Obj(<< <<"timestamp", Str("soon")>>,
           <<"value", Obj(<< <<"t", Reading(Num(21))>> >>)>> >>)
DataMixed ==
    Obj(<< <<"timestamp", Num(1800)>>,
           <<"value", Obj(<< <<"t", Reading(Num(22))>>, <<"h", Reading(Null)>> >>)>> >>)

StatusDoc == Obj(<< <<"timestamp", Num(1700)>>, <<"value", Str("online")>> >>)
ErrorDoc(sev) ==
    Obj(<< <<"timestamp", Num(1700)>>,
           <<"value", Obj(<< <<"error_type", Str("sensor")>>,
                             <<"message", Str("read failed")>>,
                             <<"severity", Num(sev)>> >>)>> >>)

CapPayloads == {Json(CapOne), Json(CapTwo)}
DataPayloads == {Json(DataFull), Json(DataNoTs), Json(DataBadTs), Json(DataMixed)}
BadPayloads == {BadJson, Json(Num(5))}
Severities == {1, 3, 7, -2, -5}

CapFaults == {"getconn53", "execute61", "getconn83", "select87", "insert99",
              "commit106"}
DataFaults == {"getconn127", "select130", "getconn83", "select87", "insert99",
               "commit106", "getconn177", "insert185", "insert185second",
               "commit190"}

NoFaults == [i \in 1..NumSinks |-> "none"]
\* at most one sink is faulty while one message is processed
FaultPlans(sites) ==
    {NoFaults} \cup {[NoFaults EXCEPT ![i] = f] : i \in 1..NumSinks, f \in sites}

-----------------------------------------------------------------------------
(* The ingestion state machine: the transport loop calls on_message, one   *)
(* message at a time.                                                      *)

\* on_connect without the data subscription's own quality of service
SubscribeAllAcked(subs, n) ==
    subs \cup {[topic |-> "devices/+/capabilities", qos |-> 1, session |-> n],
               [topic |-> "devices/+/sensors/+/data", qos |-> 1, session |-> n],
               [topic |-> "devices/+/status", qos |-> 1, session |-> n],
               [topic |-> "devices/+/error", qos |-> 1, session |-> n]}

\* lines 232-235: the client.subscribe calls of on_connect, in session n
Subscribe(subs, n) ==
    subs \cup {[topic |-> "devices/+/capabilities", qos |-> 1, session |-> n],
               [topic |-> "devices/+/sensors/+/data", qos |-> 0, session |-> n],
               [topic |-> "devices/+/status", qos |-> 1, session |-> n],
               [topic |-> "devices/+/error", qos |-> 1, session |-> n]}

\* no cleanup run and no inspector started
NoFolder == [exists |-> FALSE, is_dir |-> FALSE, entries |-> <<>>]
ToolsInit ==
    /\ folder = NoFolder
    /\ cleanup = [pc |-> "idle", result |-> Null, raised |-> FALSE]
    /\ inspector = [pc |-> "idle"]

NoMessage ==
    [topic |-> <<>>, raw |-> BadJson, faults |-> NoFaults, now |-> 0,
     handler |-> "none", invoked |-> {}, caught |-> FALSE, escaped |-> FALSE,
     label |-> "none"]

\* the collector in loop_forever, its first session up
CollectorRunning ==
    /\ storage_handlers = [i \in 1..NumSinks |-> NewSink]
    /\ clock = 9000
    /\ nmsgs = 0
    /\ last = NoMessage
    /\ reconnect_delay = 5
    /\ connected = TRUE
    /\ pc = "loop"
    /\ session = "up"
    /\ sessions = 1
    /\ slept = <<>>
    /\ conn_log = [event |-> "on_connect", rc |-> 0, delay |-> 5]
    /\ subscribed = Subscribe({}, 1)

Init ==
    /\ CollectorRunning
    /\ ToolsInit

\* the transport loop hands one message to on_message
Receive(topic, raw, faults) ==
    /\ pc = "loop"
    /\ session = "up"
    /\ \E r \in {on_message(storage_handlers, topic, raw, faults, clock)} :
          /\ storage_handlers' = r.hs
          /\ last' = [topic |-> topic, raw |-> raw, faults |-> faults,
                      now |-> clock, handler |-> r.handler,
                      invoked |-> r.invoked, caught |-> r.caught,
                      escaped |-> r.escaped, label |-> r.label]
    /\ clock' = clock + 1
    /\ nmsgs' = nmsgs + 1
    /\ UNCHANGED conn_vars
    /\ UNCHANGED tool_vars

Deliver(topic, raw, faults) ==
    /\ nmsgs < MaxMsgs
    /\ Receive(topic, raw, faults)

DeliverCapabilities ==
    \E d \in DeviceIds, raw \in CapPayloads \cup BadPayloads :
        \E faults \in (IF raw \in CapPayloads THEN FaultPlans(CapFaults)
                       ELSE {NoFaults}) :
            Deliver(<<"devices", d, "capabilities">>, raw, faults)

DeliverSensorData ==
    \E d \in DeviceIds, k \in SensorTypes, raw \in DataPayloads \cup BadPayloads :
        \E faults \in (IF raw \in DataPayloads THEN FaultPlans(DataFaults)
                       ELSE {NoFaults}) :
            Deliver(<<"devices", d, "sensors", k, "data">>, raw, faults)

DeliverStatus ==
    \E d \in DeviceIds, raw \in {Json(StatusDoc)} \cup BadPayloads :
        Deliver(<<"devices", d, "status">>, raw, NoFaults)

DeliverError ==
    \E d \in DeviceIds, raw \in {Json(ErrorDoc(s)) : s \in Severities} \cup BadPayloads :
        Deliver(<<"devices", d, "error">>, raw, NoFaults)

MalformedTopics ==
    {<<"devices">>, <<"devices", "a">>, <<"devices", "a", "bogus">>,
     <<"devices", "a", "sensors">>, <<"devices", "a", "sensors", "c">>,
     <<"devices", "a", "sensors", "c", "config">>}

DeliverMalformed ==
    \E topic \in MalformedTopics, raw \in {Json(DataFull), Json(CapOne), BadJson} :
        Deliver(topic, raw, NoFaults)

Next ==
    \/ DeliverSensorData
    \/ DeliverCapabilities
    \/ DeliverStatus
    \/ DeliverError
    \/ DeliverMalformed

Spec == Init /\ [][Next]_vars

\* main() run again on the same databases (lines 395-403): every sink is a new
\* FlexibleDatabaseStorage with an empty sensor_id_cache and a new pool
\* (lines 42-45); the tables are what the previous process committed
Restart ==
    /\ pc = "loop"
    /\ storage_handlers' =
          [i \in 1..Len(storage_handlers) |->
              [storage_handlers[i] EXCEPT !.sensor_id_cache = <<>>,
                                          !.checked_out = 0,
                                          !.max_used = 0,
                                          !.closed = FALSE]]
    /\ UNCHANGED <<clock, nmsgs, last>>
    /\ UNCHANGED conn_vars
    /\ UNCHANGED tool_vars

NextRestart ==
    \/ Next
    \/ Restart

SpecRestart == Init /\ [][NextRestart]_vars

\* The same loop with no fault injected, for longer runs of messages
ReceiveNoFault ==
    /\ nmsgs < MaxCleanMsgs
    /\ \E d \in DeviceIds :
          \/ \E raw \in CapPayloads :
                Receive(<<"devices", d, "capabilities">>, raw, NoFaults)
          \/ \E k \in SensorTypes, raw \in DataPayloads :
                Receive(<<"devices", d, "sensors", k, "data">>, raw, NoFaults)

NextNoFault == ReceiveNoFault

SpecNoFault == Init /\ [][NextNoFault]_vars

-----------------------------------------------------------------------------
(* The connection state machine: start() runs connect_with_retry and then  *)
(* loop_forever, which calls on_connect and on_disconnect and reconnects   *)
(* after a drop.                                                           *)

initial_reconnect_delay == 5
max_reconnect_delay == 60
\* reason codes of a CONNACK (0: accepted) and of a session that ended (0: clean
\* disconnect, otherwise a drop)
ConnackCodes == {0, 3, 5}
DropCodes == {0, 7, 16}

\* NextDelay without the cap
NextDelayUncapped(delay) == delay * 2

\* line 352
NextDelay(delay) == Min(delay * 2, max_reconnect_delay)

\* on_connect without the reset
DelayOnConnectKept(delay) == delay

\* line 228
DelayOnConnect(delay) == initial_reconnect_delay

\* lines 204-222 and 395-401: the collector as main() constructs it
CollectorConstructed ==
    /\ storage_handlers = [i \in 1..NumSinks |-> NewSink]
    /\ clock = 9000
    /\ nmsgs = 0
    /\ last = NoMessage
    /\ reconnect_delay = initial_reconnect_delay
    /\ connected = FALSE
    /\ pc = "retry"
    /\ session = "none"
    /\ sessions = 0
    /\ slept = <<>>
    /\ conn_log = [event |-> "none", rc |-> 0, delay |-> 0]
    /\ subscribed = {}

ConnInit ==
    /\ CollectorConstructed
    /\ ToolsInit

\* ConnectFails giving up once the delay has reached its maximum
ConnectFailsGivesUp ==
    /\ pc = "retry"
    /\ Len(slept) < MaxAttempts
    /\ slept' = Append(slept, reconnect_delay)
    /\ reconnect_delay' = NextDelay(reconnect_delay)
    /\ pc' = IF reconnect_delay = max_reconnect_delay THEN "stop378" ELSE "retry"
    /\ UNCHANGED <<connected, session, sessions, conn_log, subscribed>>
    /\ UNCHANGED ingest_vars
    /\ UNCHANGED tool_vars

\* connect_with_retry, lines 346-352: mqtt_client.connect raises
ConnectFails ==
    /\ pc = "retry"
    /\ Len(slept) < MaxAttempts
    /\ slept' = Append(slept, reconnect_delay)   \* time.sleep(self.reconnect_delay)
    /\ reconnect_delay' = NextDelay(reconnect_delay)
    /\ UNCHANGED <<connected, pc, session, sessions, conn_log, subscribed>>
    /\ UNCHANGED ingest_vars
    /\ UNCHANGED tool_vars

\* connect_with_retry, lines 343-344: mqtt_client.connect returns; start() goes
\* on to loop_forever
ConnectReturns ==
    /\ pc = "retry"
    /\ pc' = "loop"
    /\ session' = "connack"
    /\ UNCHANGED <<reconnect_delay, connected, sessions, slept, conn_log,
                   subscribed>>
    /\ UNCHANGED ingest_vars
    /\ UNCHANGED tool_vars

\* on_connect, lines 226-246
OnConnect ==
    /\ pc = "loop"
    /\ session = "connack"
    /\ \E reason_code \in ConnackCodes :
          IF reason_code = 0
          THEN /\ sessions < MaxSessions
               /\ connected' = TRUE
               /\ reconnect_delay' = DelayOnConnect(reconnect_delay)
               /\ session' = "up"
               /\ sessions' = sessions + 1
               /\ conn_log' = [event |-> "on_connect", rc |-> 0,
                               delay |-> DelayOnConnect(reconnect_delay)]
               /\ subscribed' = Subscribe(subscribed, sessions + 1)
          ELSE /\ connected' = FALSE
               /\ session' = "refused"
               /\ conn_log' = [event |-> "on_connect", rc |-> reason_code,
                               delay |-> reconnect_delay]
               /\ UNCHANGED <<reconnect_delay, sessions, subscribed>>
    /\ UNCHANGED <<pc, slept>>
    /\ UNCHANGED ingest_vars
    /\ UNCHANGED tool_vars

\* on_disconnect letting an exception out: it leaves loop_forever and start()
OnDisconnectRaises ==
    /\ pc = "loop"
    /\ session \in {"up", "refused"}
    /\ connected' = FALSE
    /\ session' = "down"
    /\ pc' = "raised"
    /\ UNCHANGED <<reconnect_delay, sessions, slept, conn_log, subscribed>>
    /\ UNCHANGED ingest_vars
    /\ UNCHANGED tool_vars

\* on_disconnect clearing the flag only when the disconnect was unexpected
OnDisconnectCleanKeeps ==
    /\ pc = "loop"
    /\ session \in {"up", "refused"}
    /\ \E reason_code \in DropCodes :
          /\ conn_log' = [event |-> "on_disconnect", rc |-> reason_code,
                          delay |-> reconnect_delay]
          /\ connected' = IF reason_code = 0 THEN connected ELSE FALSE
    /\ session' = "down"
    /\ UNCHANGED <<reconnect_delay, pc, sessions, slept, subscribed>>
    /\ UNCHANGED ingest_vars
    /\ UNCHANGED tool_vars

\* on_disconnect, lines 250-256: the session ended, cleanly or not
OnDisconnect ==
    /\ pc = "loop"
    /\ session \in {"up", "refused"}
    /\ \E reason_code \in DropCodes :
          conn_log' = [event |-> "on_disconnect", rc |-> reason_code,
                       delay |-> reconnect_delay]
    /\ connected' = FALSE
    /\ session' = "down"
    /\ UNCHANGED <<reconnect_delay, pc, sessions, slept, subscribed>>
    /\ UNCHANGED ingest_vars
    /\ UNCHANGED tool_vars

\* Reconnect by a loop that stop() has not halted
ReconnectAfterStop ==
    /\ session \in {"down", "closed"}
    /\ session' = "connack"
    /\ UNCHANGED <<reconnect_delay, connected, pc, sessions, slept, conn_log,
                   subscribed>>
    /\ UNCHANGED ingest_vars
    /\ UNCHANGED tool_vars

\* loop_forever(retry_first_connection=True) reconnects after a drop
Reconnect ==
    /\ pc = "loop"
    /\ session = "down"
    /\ session' = "connack"
    /\ UNCHANGED <<reconnect_delay, connected, pc, sessions, slept, conn_log,
                   subscribed>>
    /\ UNCHANGED ingest_vars
    /\ UNCHANGED tool_vars

NextConn ==
    \/ ConnectFails
    \/ ConnectReturns
    \/ OnConnect
    \/ OnDisconnect
    \/ Reconnect

SpecConn == ConnInit /\ [][NextConn]_vars

\* the transport eventually accepts a connection: some connect call returns
SpecRetry == ConnInit /\ [][NextConn]_vars /\ WF_vars(ConnectReturns)

\* start() with messages arriving while a session is up
ReceiveConnected ==
    /\ nmsgs < MaxLiveMsgs
    /\ \E d \in DeviceIds :
          \/ Receive(<<"devices", d, "sensors", "c", "data">>, Json(DataFull), NoFaults)
          \/ Receive(<<"devices", d, "status">>, Json(StatusDoc), NoFaults)

NextLive ==
    \/ NextConn
    \/ ReceiveConnected

\* loop_forever keeps running: it reconnects after a drop, reads the CONNACK and
\* sees the broker close a refused session; a broker that can be reached again
\* and again eventually accepts
Fairness ==
    /\ WF_vars(Reconnect)
    /\ WF_vars(OnDisconnect /\ session = "refused")
    /\ SF_vars(OnConnect /\ connected')

SpecLive == ConnInit /\ [][NextLive]_vars /\ Fairness

-----------------------------------------------------------------------------
(* Shutdown: start() catches KeyboardInterrupt (line 367) and calls stop().  *)
(* The interrupt is raised in the thread that runs connect_with_retry and   *)
(* loop_forever, between two messages or inside a handler call.             *)

\* the first sink whose pool stop() has not closed yet; 0 when none is left
NextToClose(hs) ==
    IF \A i \in 1..Len(hs) : hs[i].closed THEN 0
    ELSE CHOOSE i \in 1..Len(hs) :
             ~hs[i].closed /\ \A j \in 1..(i - 1) : hs[j].closed

\* KeyboardInterrupt while start() sleeps, connects or waits for the network
Interrupt ==
    /\ pc \in {"retry", "loop"}
    /\ pc' = "stop378"
    /\ UNCHANGED <<reconnect_delay, connected, session, sessions, slept, conn_log,
                   subscribed>>
    /\ UNCHANGED ingest_vars
    /\ UNCHANGED tool_vars

\* KeyboardInterrupt inside handle_sensor_data: sinks 1..j-1 have stored the
\* message, sink j holds a connection (line 177) and has committed no row of it
InterruptedStore(hs, j, device_id, sensor_type, payload, now) ==
    [i \in 1..Len(hs) |->
        IF i < j
        THEN on_message(<<hs[i]>>, <<"devices", device_id, "sensors", sensor_type,
                                    "data">>, Json(payload), NoFaults, now).hs[1]
        ELSE IF i = j
        THEN getconn(store_sensor_data(hs[i], "commit190", device_id, sensor_type,
                        fromtimestamp(DictGet(payload, "timestamp", Num(now)).v),
                        DictGet(payload, "value", EmptyDict)).h)
        ELSE hs[i]]

ReceiveInterrupted ==
    /\ pc = "loop"
    /\ session = "up"
    /\ nmsgs < MaxLiveMsgs
    /\ \E d \in DeviceIds, j \in 1..NumSinks :
          /\ storage_handlers' =
                InterruptedStore(storage_handlers, j, d, "c", DataFull, clock)
          /\ last' = [topic |-> <<"devices", d, "sensors", "c", "data">>,
                      raw |-> Json(DataFull), faults |-> NoFaults, now |-> clock,
                      handler |-> "handle_sensor_data", invoked |-> 1..j,
                      caught |-> FALSE, escaped |-> TRUE, label |-> "none"]
    /\ clock' = clock + 1
    /\ nmsgs' = nmsgs + 1
    /\ pc' = "unwind"
    /\ UNCHANGED <<reconnect_delay, connected, session, sessions, slept, conn_log,
                   subscribed>>
    /\ UNCHANGED tool_vars

\* the interrupt leaves the handler: finally: putconn (line 198); no except
\* Exception clause catches it (lines 194, 314, 284) and start() does (line 367)
Unwind ==
    /\ pc = "unwind"
    /\ storage_handlers' =
          [i \in 1..Len(storage_handlers) |->
              IF storage_handlers[i].checked_out > 0
              THEN putconn(storage_handlers[i]) ELSE storage_handlers[i]]
    /\ pc' = "stop378"
    /\ UNCHANGED <<clock, nmsgs, last>>
    /\ UNCHANGED <<reconnect_delay, connected, session, sessions, slept, conn_log,
                   subscribed>>
    /\ UNCHANGED tool_vars

\* stop(), lines 378-379: loop_stop() and disconnect(); loop_forever has been
\* left, so no callback runs any more and self.connected keeps its value
StopClient ==
    /\ pc = "stop378"
    /\ session' = "closed"
    /\ pc' = "stop382"
    /\ UNCHANGED <<reconnect_delay, connected, sessions, slept, conn_log, subscribed>>
    /\ UNCHANGED ingest_vars
    /\ UNCHANGED tool_vars

\* ClosePool running before loop_stop() and disconnect()
ClosePoolFirst ==
    /\ pc \in {"stop378", "stop382"}
    /\ NextToClose(storage_handlers) /= 0
    /\ storage_handlers' =
          Put(storage_handlers, NextToClose(storage_handlers),
              close(storage_handlers[NextToClose(storage_handlers)]))
    /\ UNCHANGED <<clock, nmsgs, last>>
    /\ UNCHANGED conn_vars
    /\ UNCHANGED tool_vars

\* stop(), lines 382-383: one turn of for handler in self.storage_handlers
ClosePool ==
    /\ pc = "stop382"
    /\ NextToClose(storage_handlers) /= 0
    /\ storage_handlers' =
          Put(storage_handlers, NextToClose(storage_handlers),
              close(storage_handlers[NextToClose(storage_handlers)]))
    /\ UNCHANGED <<clock, nmsgs, last>>
    /\ UNCHANGED conn_vars
    /\ UNCHANGED tool_vars

\* stop(), line 385, and start() return
StopReturns ==
    /\ pc = "stop382"
    /\ NextToClose(storage_handlers) = 0
    /\ pc' = "stopped"
    /\ UNCHANGED <<reconnect_delay, connected, session, sessions, slept, conn_log,
                   subscribed>>
    /\ UNCHANGED ingest_vars
    /\ UNCHANGED tool_vars

NextStop ==
    \/ NextLive
    \/ Interrupt
    \/ ReceiveInterrupted
    \/ Unwind
    \/ StopClient
    \/ ClosePool
    \/ StopReturns

SpecStop == ConnInit /\ [][NextStop]_vars

\* stop() is straight-line code: once entered it runs to its end
SpecStopFair ==
    SpecStop /\ WF_vars(Unwind \/ StopClient \/ ClosePool \/ StopReturns)

-----------------------------------------------------------------------------
(* cleanup_old_files.py.  folder is the path as the file system holds it:   *)
(* whether it exists, whether it is a directory, and its entries in the     *)
(* order of iterdir().  An entry has a kind ("file", "dir", or "link": a    *)
(* symbolic link to a regular file), the modification time stat() reports   *)
(* (of the link's target for a link, since stat() follows links), its own   *)
(* modification time lmtime, a size, and the call that fails on it:         *)
(* "is_file" and "stat" (the entry cannot be examined), "unlink" (it cannot *)
(* be removed), or "none".                                                  *)

MAX_AGE_DAYS == 7
MAX_AGE_SECONDS == MAX_AGE_DAYS * 24 * 60 * 60

\* Path.is_file(): true of a regular file and of a link to one
is_file(e) == e.kind \in {"file", "link"}

\* what Path.is_file() does with a permission error differs between builds of
\* pathlib: it lets the error out, or answers False
Builds == {"propagates", "suppressed"}

\* line 80-86, and the entries left in the folder
CleanupAcc ==
    [kept |-> <<>>, raised |-> FALSE, deleted |-> 0, failed |-> 0,
     total_size_freed |-> 0, deleted_files |-> <<>>, failed_files |-> <<>>]

\* lines 76-78
CountFailure(r, e) ==
    [r EXCEPT !.kept = Append(@, e), !.failed = @ + 1,
              !.failed_files = Append(@, e.name)]

\* lines 70-74
RemoveEntry(r, e) ==
    [r EXCEPT !.deleted = @ + 1, !.total_size_freed = @ + e.size,
              !.deleted_files = Append(@, e.name)]

Keep(r, e) == [r EXCEPT !.kept = Append(@, e)]

\* lines 63-78: the try block for one regular file
RemoveIfOld(r, e, current_time, max_age_seconds) ==
    IF e.fault = "stat" THEN CountFailure(r, e)
    ELSE IF current_time - e.mtime > max_age_seconds
    THEN IF e.fault = "unlink" THEN CountFailure(r, e) ELSE RemoveEntry(r, e)
    ELSE Keep(r, e)

RECURSIVE CleanupEntries(_, _, _, _, _, _)
\* lines 59-78: for file_path in folder.iterdir()
CleanupEntries(entries, i, r, current_time, max_age_seconds, build) ==
    IF i > Len(entries) THEN r
    ELSE IF entries[i].fault = "is_file"
    THEN IF build = "propagates"
         THEN [r EXCEPT !.raised = TRUE,
                        !.kept = @ \o SubSeq(entries, i, Len(entries))]
         ELSE CleanupEntries(entries, i + 1, Keep(r, entries[i]), current_time,
                             max_age_seconds, build)
    ELSE IF ~is_file(entries[i])
    THEN CleanupEntries(entries, i + 1, Keep(r, entries[i]), current_time,
                        max_age_seconds, build)
    ELSE CleanupEntries(entries, i + 1,
                        RemoveIfOld(r, entries[i], current_time, max_age_seconds),
                        current_time, max_age_seconds, build)

\* lines 36-41 and 44-49
ErrorResult(error) ==
    [error |-> error, deleted |-> 0, failed |-> 0, total_size_freed |-> 0]

\* lines 80-86
CleanupResult(f, r) ==
    [folder |-> [f EXCEPT !.entries = r.kept],
     raised |-> r.raised,
     result |-> IF r.raised THEN Null
                ELSE [deleted |-> r.deleted, failed |-> r.failed,
                      total_size_freed |-> r.total_size_freed,
                      deleted_files |-> r.deleted_files,
                      failed_files |-> r.failed_files]]

\* lines 22-86
cleanup_old_files(f, max_age_seconds, current_time, build) ==
    IF ~f.exists
    THEN [folder |-> f, raised |-> FALSE,
          result |-> ErrorResult("Folder does not exist")]
    ELSE IF ~f.is_dir
    THEN [folder |-> f, raised |-> FALSE,
          result |-> ErrorResult("Path is not a directory")]
    ELSE CleanupResult(f, CleanupEntries(f.entries, 1, CleanupAcc, current_time,
                                         max_age_seconds, build))

EntryNames == <<"plot.png", "query.csv", "run.log">>
EntryKinds == {"file", "dir", "link"}
EntryFaults == {"none", "is_file", "stat", "unlink"}
\* the ages an entry can have: one second over the limit, the limit, one second
Ages == {MAX_AGE_SECONDS + 1, MAX_AGE_SECONDS, 1}

\* the entries a folder can hold under its i-th name, at time now; a link was
\* made a second ago, whatever the age of its target
EntriesAt(i, now) ==
    {[name |-> EntryNames[i], kind |-> k, mtime |-> now - a,
      lmtime |-> IF k = "link" THEN now - 1 ELSE now - a,
      size |-> 100 * i, fault |-> ft] :
        k \in EntryKinds, a \in Ages, ft \in EntryFaults}

RECURSIVE Listings(_, _)
\* the directory listings of n entries
Listings(n, now) ==
    IF n = 0 THEN {<<>>}
    ELSE {Append(l, e) : l \in Listings(n - 1, now), e \in EntriesAt(n, now)}

Folders(now) ==
    {NoFolder, [exists |-> TRUE, is_dir |-> FALSE, entries |-> <<>>]}
    \cup {[exists |-> TRUE, is_dir |-> TRUE, entries |-> l] :
              l \in UNION {Listings(n, now) : n \in 0..MaxEntries}}

CleanupInit ==
    /\ CollectorConstructed
    /\ folder \in Folders(clock)
    /\ cleanup = [pc |-> "main", result |-> Null, raised |-> FALSE]
    /\ inspector = [pc |-> "idle"]

\* main(), lines 107-130: one run of the script
RunCleanup ==
    /\ cleanup.pc = "main"
    /\ \E build \in Builds :
          \E r \in {cleanup_old_files(folder, MAX_AGE_SECONDS, clock, build)} :
             /\ folder' = r.folder
             /\ cleanup' = [pc |-> IF r.raised THEN "raised"
                                   ELSE IF "error" \in DOMAIN r.result THEN "return1"
                                   ELSE "return0",
                            result |-> r.result, raised |-> r.raised]
    /\ UNCHANGED <<inspector>>
    /\ UNCHANGED ingest_vars
    /\ UNCHANGED conn_vars

NextCleanup == RunCleanup

SpecCleanup == CleanupInit /\ [][NextCleanup]_vars

-----------------------------------------------------------------------------
(* device_activity_inspector.py.  The inspector reads the database of the   *)
(* collector's first sink.  A check cycle is one call of                    *)
(* check_device_activity; its fault names the call that fails in it:        *)
(* "connect112", "get_devices114", "latest119first" and "latest119second"   *)
(* (the query for the first or second device), "post65" (every POST of the  *)
(* cycle), "interrupt114" (a KeyboardInterrupt while the devices are read), *)
(* or "none".                                                               *)

CHECK_INTERVAL == 600
INACTIVITY_THRESHOLD == 300

CycleFaults == {"none", "connect112", "get_devices114", "latest119first",
                "latest119second", "post65", "interrupt114"}

\* lines 80-82: SELECT device_id, device_name FROM devices
get_devices(h) ==
    {[device_id |-> r.device_id, device_name |-> r.device_name] : r \in h.devices}

\* the orders in which fetchall() can return the rows: the query has no ORDER BY
RowOrders(rows) ==
    {o \in [1..Cardinality(rows) -> rows] :
        \A i, j \in 1..Cardinality(rows) : i /= j => o[i] /= o[j]}

\* the times of the measurements joined to the sensors of the device
MeasurementTimes(h, device_id) ==
    {h.measurements[n].time.epoch : n \in
        {n \in 1..Len(h.measurements) :
            \E s \in h.sensors : /\ s.device_id = device_id
                                 /\ s.sensor_id = h.measurements[n].sensor_id}}

\* lines 95-103: SELECT MAX(m.time); Null stands for None
get_latest_message_time(h, device_id) ==
    IF MeasurementTimes(h, device_id) = {} THEN Null
    ELSE Num(CHOOSE t \in MeasurementTimes(h, device_id) :
                 \A u \in MeasurementTimes(h, device_id) : u <= t)

\* lines 59-68: one POST; a POST that fails is printed and nothing is raised
send_notification(sent, message, fault) ==
    Append(sent, [message EXCEPT !.delivered = (fault /= "post65")])

\* CheckDevice without the branch of line 121
CheckDeviceSkipsNever(sent, row, latest, now, fault) ==
    IF latest = Null
    THEN sent
    ELSE IF latest.v < now - INACTIVITY_THRESHOLD
    THEN send_notification(sent,
             [device_id |-> row.device_id, device_name |-> row.device_name,
              text |-> "inactive", minutes_ago |-> (now - latest.v) \div 60,
              delivered |-> FALSE], fault)
    ELSE sent

\* lines 121-125, with threshold = now - timedelta(seconds=INACTIVITY_THRESHOLD)
CheckDevice(sent, row, latest, now, fault) ==
    IF latest = Null
    THEN send_notification(sent,
             [device_id |-> row.device_id, device_name |-> row.device_name,
              text |-> "never sent data", minutes_ago |-> 0,
              delivered |-> FALSE], fault)
    ELSE IF latest.v < now - INACTIVITY_THRESHOLD
    THEN send_notification(sent,
             [device_id |-> row.device_id, device_name |-> row.device_name,
              text |-> "inactive", minutes_ago |-> (now - latest.v) \div 60,
              delivered |-> FALSE], fault)
    ELSE sent

\* what a cycle did: the exception that left it, the notifications it posted,
\* the connections it opened and closed
Cycle(raised, sent, opened, closed, now) ==
    [raised |-> raised, sent |-> sent, opened |-> opened, closed |-> closed,
     now |-> now]

RECURSIVE CheckDevices(_, _, _, _, _, _)
\* lines 118-127: for device_id, device_name in devices, then finally: close
CheckDevices(h, devices, i, sent, now, fault) ==
    IF i > Len(devices) THEN Cycle("none", sent, 1, 1, now)
    ELSE IF (fault = "latest119first" /\ i = 1) \/ (fault = "latest119second" /\ i = 2)
    THEN Cycle("Exception", sent, 1, 1, now)
    ELSE CheckDevices(h, devices, i + 1,
                      CheckDevice(sent, devices[i],
                                  get_latest_message_time(h, devices[i].device_id),
                                  now, fault),
                      now, fault)

\* lines 105-127
check_device_activity(h, devices, now, fault) ==
    IF fault = "connect112" THEN Cycle("Exception", <<>>, 0, 0, now)
    ELSE IF fault = "get_devices114" THEN Cycle("Exception", <<>>, 1, 1, now)
    ELSE IF fault = "interrupt114" THEN Cycle("KeyboardInterrupt", <<>>, 1, 1, now)
    ELSE CheckDevices(h, devices, 1, <<>>, now, fault)

NoCycle == Cycle("none", <<>>, 0, 0, 0)

\* a reading stamped so that it is exactly INACTIVITY_THRESHOLD old one second
\* after it was received
DataAged(now) ==
    Obj(<< <<"timestamp", Num(now + 1 - INACTIVITY_THRESHOLD)>>,
           <<"value", Obj(<< <<"t", Reading(Num(21))>> >>)>> >>)

InspectorInit ==
    /\ CollectorRunning
    /\ folder = NoFolder
    /\ cleanup = [pc |-> "idle", result |-> Null, raised |-> FALSE]
    /\ inspector = [pc |-> "main", cycles |-> 0, sleeps |-> 0, cycle |-> NoCycle,
                    ended_by |-> "none"]

\* the collector stores announcements and readings while the inspector runs
InspectorReceive ==
    /\ nmsgs < MaxInspectorMsgs
    /\ \E d \in DeviceIds :
          \/ Receive(<<"devices", d, "capabilities">>, Json(CapOne), NoFaults)
          \/ \E doc \in {DataNoTs, DataAged(clock)} :
                Receive(<<"devices", d, "sensors", "c", "data">>, Json(doc), NoFaults)

\* main(), lines 136-140: validate_env_variables() raises ValueError when a
\* required variable is missing
StartInspector ==
    /\ inspector.pc = "main"
    /\ \E env_ok \in BOOLEAN :
          inspector' = [inspector EXCEPT
                           !.pc = IF env_ok THEN "check144" ELSE "raised136",
                           !.ended_by = IF env_ok THEN "none" ELSE "ValueError"]
    /\ UNCHANGED <<folder, cleanup>>
    /\ UNCHANGED ingest_vars
    /\ UNCHANGED conn_vars

\* CheckCycle leaving the loop when the cycle raised
CheckCycleGivesUp ==
    /\ inspector.pc = "check144"
    /\ inspector.cycles < MaxCycles
    /\ \E fault \in CycleFaults,
          devices \in RowOrders(get_devices(storage_handlers[1])) :
          \E r \in {check_device_activity(storage_handlers[1], devices, clock, fault)} :
             inspector' = [inspector EXCEPT
                              !.pc = IF r.raised = "none" THEN "sleep145"
                                     ELSE "returned148",
                              !.ended_by = r.raised,
                              !.cycles = @ + 1,
                              !.cycle = r]
    /\ UNCHANGED <<folder, cleanup>>
    /\ UNCHANGED ingest_vars
    /\ UNCHANGED conn_vars

\* main(), lines 143-151: one check cycle and where it leaves the loop body
CheckCycle ==
    /\ inspector.pc = "check144"
    /\ inspector.cycles < MaxCycles
    /\ \E fault \in CycleFaults,
          devices \in RowOrders(get_devices(storage_handlers[1])) :
          \E r \in {check_device_activity(storage_handlers[1], devices, clock, fault)} :
             inspector' = [inspector EXCEPT
                              !.pc = IF r.raised = "none" THEN "sleep145"
                                     ELSE IF r.raised = "KeyboardInterrupt"
                                     THEN "returned148"
                                     ELSE "sleep151",
                              !.ended_by = IF r.raised = "KeyboardInterrupt"
                                           THEN "KeyboardInterrupt" ELSE "none",
                              !.cycles = @ + 1,
                              !.cycle = r]
    /\ UNCHANGED <<folder, cleanup>>
    /\ UNCHANGED ingest_vars
    /\ UNCHANGED conn_vars

\* time.sleep(CHECK_INTERVAL) of line 145 or 151 returns: the next turn of the
\* loop
SleepInspector ==
    /\ inspector.pc \in {"sleep145", "sleep151"}
    /\ clock' = clock + CHECK_INTERVAL
    /\ inspector' = [inspector EXCEPT !.pc = "check144", !.sleeps = @ + 1]
    /\ UNCHANGED <<storage_handlers, nmsgs, last, folder, cleanup>>
    /\ UNCHANGED conn_vars

\* KeyboardInterrupt during a sleep: the sleep of line 145 is inside the try
\* (lines 146-148: break), the sleep of line 151 is inside the except clause,
\* so the interrupt leaves main()
InterruptInspector ==
    /\ inspector.pc \in {"sleep145", "sleep151"}
    /\ inspector' = [inspector EXCEPT
                        !.pc = IF inspector.pc = "sleep145" THEN "returned148"
                               ELSE "raised151",
                        !.ended_by = "KeyboardInterrupt"]
    /\ UNCHANGED <<folder, cleanup>>
    /\ UNCHANGED ingest_vars
    /\ UNCHANGED conn_vars

NextInspector ==
    \/ InspectorReceive
    \/ StartInspector
    \/ CheckCycle
    \/ SleepInspector
    \/ InterruptInspector

\* a sleep that is not interrupted returns
SpecInspector ==
    InspectorInit /\ [][NextInspector]_vars /\ WF_vars(SleepInspector)

-----------------------------------------------------------------------------
(* Properties                                                              *)

Sinks == 1..NumSinks

\* what the message m of a last record is
IsSensorData(m) == m.handler = "handle_sensor_data"
IsCapabilities(m) == m.handler = "handle_capabilities"
DocOf(m) == m.raw.doc
\* the timestamp of an object payload is absent or a number
TimestampUsable(m) ==
    IF m.raw.ok
    THEN IF IsObj(DocOf(m)) THEN IsNum(DictGet(DocOf(m), "timestamp", Num(m.now)))
         ELSE FALSE
    ELSE FALSE
ValueItems(m) == DictGet(DocOf(m), "value", EmptyDict).items
\* the metrics of the message whose reading is not null
Readings(m) ==
    {j \in 1..Len(ValueItems(m)) :
        DictGet(ValueItems(m)[j][2], "reading", Null) /= Null}
InsertFaults == {"insert185", "insert185second", "commit190"}
Added(i) ==
    Len(storage_handlers'[i].measurements) - Len(storage_handlers[i].measurements)

\* C1: when a sink's measurement insert fails while a sensor-data message is
\* stored, store_sensor_data is still invoked on every sink, no exception leaves
\* handle_sensor_data, and every sink without a fault stores one row per
\* non-null reading of the message; this holds for every message of a batch.
C1_FanOutIsolation ==
    [][(IsSensorData(last') /\ TimestampUsable(last')
          /\ (\E i \in Sinks : last'.faults[i] \in InsertFaults))
       => /\ ~last'.escaped
          /\ last'.invoked = Sinks
          /\ \A i \in Sinks :
                last'.faults[i] = "none" => Added(i) = Cardinality(Readings(last'))
      ]_vars

\* two messages of a batch, the first sink failing its insert on the last one:
\* the first sink holds nothing, the second every row of both messages
C1_Witness ==
    /\ nmsgs = 2
    /\ IsSensorData(last)
    /\ last.faults[1] = "insert185"
    /\ Cardinality(Readings(last)) = 2
    /\ Len(storage_handlers[1].measurements) = 0
    /\ Len(storage_handlers[2].measurements) = 4

\* C2: for every sensor-data message that reaches the fan-out, store_sensor_data
\* is invoked on every registered sink, whatever error an earlier sink raised.
C2_EverySinkInvoked ==
    (IsSensorData(last) /\ TimestampUsable(last)) => last.invoked = Sinks

DeviceRows(h, d) == {r \in h.devices : r.device_id = d}
DeclaredKinds(m) ==
    {x.v : x \in {DictGet(DocOf(m), "sensors", List(<<>>)).items[j] :
                    j \in 1..Len(DictGet(DocOf(m), "sensors", List(<<>>)).items)}}

\* C3: after a capabilities message is processed without a fault every sink has
\* exactly one device row for the device and exactly one sensor row per declared
\* kind, the processing raises nothing, and processing the same message again
\* leaves the device and sensor tables as they were.
C3_RegistrationIdempotent ==
    [][(IsCapabilities(last') /\ last'.raw \in CapPayloads /\ last'.faults = NoFaults)
       => /\ ~last'.caught
          /\ ~last'.escaped
          /\ \A i \in Sinks :
                /\ Cardinality(DeviceRows(storage_handlers'[i], last'.topic[2])) = 1
                /\ \A k \in DeclaredKinds(last') :
                      Cardinality(SelectSensorRows(storage_handlers'[i],
                                                   last'.topic[2], k)) = 1
          /\ (last.topic = last'.topic /\ last.raw = last'.raw
                /\ last.faults = NoFaults)
             => \A i \in Sinks :
                   /\ storage_handlers'[i].devices = storage_handlers[i].devices
                   /\ storage_handlers'[i].sensors = storage_handlers[i].sensors
      ]_vars

\* the same announcement of two kinds processed twice
C3_Witness ==
    /\ nmsgs = 2
    /\ IsCapabilities(last)
    /\ last.raw = Json(CapTwo)
    /\ last.faults = NoFaults
    /\ \A i \in Sinks :
          /\ Cardinality(storage_handlers[i].devices) = 1
          /\ Cardinality(storage_handlers[i].sensors) = 2
          /\ storage_handlers[i].next_sensor_id = 3

\* C4: in every sink every measurement row references a sensor row that exists
\* and every sensor row references a device row that exists.
C4_ReferentialIntegrity ==
    \A i \in Sinks :
        /\ \A j \in 1..Len(storage_handlers[i].measurements) :
              \E s \in storage_handlers[i].sensors :
                  s.sensor_id = storage_handlers[i].measurements[j].sensor_id
        /\ \A s \in storage_handlers[i].sensors :
              DeviceRows(storage_handlers[i], s.device_id) /= {}

\* C5: every cache entry a lookup of (device, kind) reads holds the id of the
\* sensor row the store has for that (device, kind).
C5_CacheCorrect ==
    \A i \in Sinks : \A d \in DeviceIds, k \in SensorTypes :
        CacheKey(d, k) \in DOMAIN storage_handlers[i].sensor_id_cache
        => /\ SelectSensorRows(storage_handlers[i], d, k) /= {}
           /\ storage_handlers[i].sensor_id_cache[CacheKey(d, k)]
                = FetchOne(SelectSensorRows(storage_handlers[i], d, k))

\* C6: the delays connect_with_retry sleeps start at 5, double on each
\* consecutive failure, never decrease and never exceed 60, and reconnect_delay
\* stays within [5, 60].
C6_BackoffMonotone ==
    /\ 5 <= reconnect_delay /\ reconnect_delay <= 60
    /\ \A n \in 1..Len(slept) :
          /\ slept[n] <= 60
          /\ slept[n] = IF n = 1 THEN 5
                        ELSE IF 2 * slept[n - 1] <= 60 THEN 2 * slept[n - 1] ELSE 60
          /\ n > 1 => slept[n - 1] <= slept[n]

\* 5, 10, 20, 40, 60, 60
C6_Witness ==
    /\ Len(slept) >= 6
    /\ slept[4] = 40
    /\ slept[5] = 60
    /\ slept[6] = 60

Kinds == {"capabilities", "sensors", "status", "error"}
Malformed(m) ==
    IF Len(m.topic) < 3 THEN TRUE
    ELSE IF m.topic[3] \notin Kinds THEN TRUE
    ELSE ~m.raw.ok

\* C8: no message makes on_message raise, and a message whose topic has fewer
\* than three segments or an unrecognized kind, or whose payload is no JSON
\* document, reaches no handler and leaves every sink as it was, so the next
\* message is processed as if it had never arrived.
C8_MalformedDropped ==
    [][/\ ~last'.escaped
       /\ Malformed(last')
          => /\ last'.handler = "none"
             /\ storage_handlers' = storage_handlers
      ]_vars

\* a message that is no JSON document arrives after data was stored
C8_Witness ==
    /\ nmsgs = 2
    /\ Len(last.topic) >= 3
    /\ ~last.raw.ok
    /\ last.caught
    /\ Len(storage_handlers[1].measurements) = 2

ExpectedTime(m) ==
    IF HasKey(DocOf(m), "timestamp")
    THEN IF IsNum(DictGet(DocOf(m), "timestamp", Null))
         THEN fromtimestamp(DictGet(DocOf(m), "timestamp", Null).v)
         ELSE fromtimestamp(m.now)
    ELSE fromtimestamp(m.now)
StoredAt(h, time) ==
    {j \in 1..Len(h.measurements) : h.measurements[j].time = time}

\* C9: a sensor-data message processed without a fault is stored in every sink,
\* under its own epoch time when its timestamp is numeric and under the arrival
\* time when the timestamp is absent or not numeric.
C9_TimestampNormalized ==
    (/\ Len(last.topic) = 5
     /\ last.topic[3] = "sensors"
     /\ last.raw \in DataPayloads
     /\ last.faults = NoFaults)
    => \A i \in Sinks :
          Cardinality(StoredAt(storage_handlers[i], ExpectedTime(last)))
            >= Cardinality(Readings(last))

\* C10: a sensor-data message, processed without a fault, for a (device, kind)
\* that has no sensor row makes every sink create the row with empty metadata
\* and store the readings of the message under the id of that row.
C10_AutoCreation ==
    [][(/\ IsSensorData(last') /\ TimestampUsable(last')
        /\ last'.faults = NoFaults)
       => \A i \in Sinks :
             SelectSensorRows(storage_handlers[i], last'.topic[2], last'.topic[4]) = {}
             => \E s \in SelectSensorRows(storage_handlers'[i], last'.topic[2],
                                          last'.topic[4]) :
                   /\ s.metadata = Null
                   /\ storage_handlers'[i].sensors
                        = storage_handlers[i].sensors \cup {s}
                   /\ Added(i) = Cardinality(Readings(last'))
                   /\ \A j \in 1..Len(storage_handlers'[i].measurements) :
                         j > Len(storage_handlers[i].measurements)
                         => storage_handlers'[i].measurements[j].sensor_id
                              = s.sensor_id
      ]_vars

NumericTimestamp(m) ==
    IF HasKey(DocOf(m), "timestamp")
    THEN IsNum(DictGet(DocOf(m), "timestamp", Null))
    ELSE FALSE
\* the rows a step appends to the measurements of sink i
NewRows(i) ==
    {n \in 1..Len(storage_handlers'[i].measurements) :
        n > Len(storage_handlers[i].measurements)}
NewRowsOf(i, metric) ==
    {n \in NewRows(i) : storage_handlers'[i].measurements[n].metric_type = metric}

\* C11: when a capabilities message for device d declaring kind k is followed by
\* a data message for (d, k) with a numeric timestamp t, both processed without
\* a fault, every sink then holds exactly one device row d and exactly one
\* sensor row (d, k), and the data message has added exactly one measurement
\* row (t, id of that sensor row, metric, reading) per metric whose reading is
\* not null and no row for a metric whose reading is null.
C11_EndToEnd ==
    [][(/\ IsCapabilities(last) /\ last.raw \in CapPayloads /\ last.faults = NoFaults
        /\ IsSensorData(last') /\ last'.raw \in DataPayloads
        /\ NumericTimestamp(last') /\ last'.faults = NoFaults
        /\ last'.topic[2] = last.topic[2]
        /\ last'.topic[4] \in DeclaredKinds(last))
       => \A i \in Sinks :
             /\ Cardinality(DeviceRows(storage_handlers'[i], last'.topic[2])) = 1
             /\ Cardinality(SelectSensorRows(storage_handlers'[i], last'.topic[2],
                                             last'.topic[4])) = 1
             /\ Added(i) = Cardinality(Readings(last'))
             /\ \A j \in 1..Len(ValueItems(last')) :
                   IF j \in Readings(last')
                   THEN \E n \in NewRows(i) :
                          /\ NewRowsOf(i, ValueItems(last')[j][1]) = {n}
                          /\ storage_handlers'[i].measurements[n] =
                               [time |-> [epoch |-> DictGet(DocOf(last'), "timestamp",
                                                           Null).v,
                                          tz |-> "UTC"],
                                sensor_id |->
                                    FetchOne(SelectSensorRows(storage_handlers'[i],
                                                last'.topic[2], last'.topic[4])),
                                metric_type |-> ValueItems(last')[j][1],
                                value |-> DictGet(ValueItems(last')[j][2], "reading",
                                                  Null)]
                   ELSE NewRowsOf(i, ValueItems(last')[j][1]) = {}
      ]_vars

\* an announcement of kind c with metadata, then a reading of (a, c) with one
\* metric null: one device, one sensor, one measurement in every sink
C11_Witness ==
    /\ nmsgs = 2
    /\ IsSensorData(last)
    /\ last.raw = Json(DataMixed)
    /\ last.faults = NoFaults
    /\ last.topic[2] = "a" /\ last.topic[4] = "c"
    /\ \A i \in Sinks :
          /\ Cardinality(storage_handlers[i].devices) = 1
          /\ \E s \in storage_handlers[i].sensors :
                /\ storage_handlers[i].sensors = {s}
                /\ s.location = Str("desk")
                /\ Len(storage_handlers[i].measurements) = 1
                /\ storage_handlers[i].measurements[1].sensor_id = s.sensor_id
                /\ storage_handlers[i].measurements[1].metric_type = "t"

CacheEntry(h, d, k) ==
    IF CacheKey(d, k) \in DOMAIN h.sensor_id_cache
    THEN {h.sensor_id_cache[CacheKey(d, k)]}
    ELSE {}

\* C12: when a sink holds the sensor row of (d, k) and no device row of d (the
\* sensor was created on demand by a data message, before any announcement of
\* d), a capabilities message for d that names k leaves the sensor rows of
\* (d, k) and the cache entry of (d, k) in that sink as they were.
C12_LateAnnouncementNoOp ==
    [][(IsCapabilities(last') /\ last'.raw \in CapPayloads)
       => \A i \in Sinks : \A k \in DeclaredKinds(last') :
             (/\ SelectSensorRows(storage_handlers[i], last'.topic[2], k) /= {}
              /\ DeviceRows(storage_handlers[i], last'.topic[2]) = {})
             => /\ SelectSensorRows(storage_handlers'[i], last'.topic[2], k)
                     = SelectSensorRows(storage_handlers[i], last'.topic[2], k)
                /\ CacheEntry(storage_handlers'[i], last'.topic[2], k)
                     = CacheEntry(storage_handlers[i], last'.topic[2], k)
      ]_vars

SubscribedIn(n) == {[topic |-> x.topic, qos |-> x.qos] : x \in {y \in subscribed : y.session = n}}

\* C13: whenever the collector is connected, on_connect has issued, for the
\* current session, exactly the four subscriptions: capabilities, status and
\* error with QoS 1 and sensor data with QoS 0; this holds for the first
\* connection and for every reconnect.
C13_SubscriptionsIssued ==
    connected
    => /\ sessions >= 1
       /\ SubscribedIn(sessions) =
            {[topic |-> "devices/+/capabilities", qos |-> 1],
             [topic |-> "devices/+/status", qos |-> 1],
             [topic |-> "devices/+/error", qos |-> 1],
             [topic |-> "devices/+/sensors/+/data", qos |-> 0]}

\* connected again after a drop: the second session has its own subscriptions
C13_Witness ==
    /\ connected
    /\ sessions = 2
    /\ Cardinality(SubscribedIn(2)) = 4
    /\ Cardinality(subscribed) = 8

\* C14: an unexpected drop leaves start() in its loop with the collector no
\* longer connected (nothing is raised to the caller); while the broker can
\* still accept a session the collector is eventually connected again, and a
\* message that arrives in a re-established session is dispatched and stored.
C14_DropRecovered ==
    /\ [][(session = "up" /\ session' = "down")
            => (pc' = "loop" /\ ~connected')]_vars
    /\ ((session = "down" /\ sessions < MaxSessions)
          ~> (connected /\ session = "up" /\ pc = "loop"))
    /\ [][(sessions >= 2 /\ nmsgs' = nmsgs + 1)
            => /\ last'.handler \in {"handle_sensor_data", "handle_status"}
               /\ ~last'.escaped
               /\ IsSensorData(last')
                  => \A i \in Sinks : Added(i) = Cardinality(Readings(last'))]_vars

\* dropped, connected again, and a reading stored in the second session
C14_Witness ==
    /\ sessions = 2
    /\ connected
    /\ conn_log.event = "on_connect"
    /\ nmsgs = 1
    /\ IsSensorData(last)
    /\ Len(storage_handlers[1].measurements) = 2

SomeClosed(hs) == \E i \in 1..Len(hs) : hs[i].closed
PoolsChanged == \E i \in Sinks : storage_handlers'[i].closed /= storage_handlers[i].closed
HandlerStep ==
    \/ nmsgs' /= nmsgs
    \/ \E i \in Sinks :
          storage_handlers'[i].checked_out /= storage_handlers[i].checked_out

Stopping == pc \in {"unwind", "stop378", "stop382", "stopped"}

\* C16: a stop request can be taken while start() retries the connection and
\* while it runs the loop, connected or not; once taken, stop runs to its end,
\* start() never goes back to retrying or looping, no connection attempt is
\* made, no session is established and no message is dispatched.
C16_StopTerminal ==
    /\ [](pc \in {"retry", "loop"} => ENABLED Interrupt)
    /\ [][Stopping
            => /\ Stopping'
               /\ slept' = slept /\ sessions' = sessions
               /\ session' \in {session, "closed"}
               /\ nmsgs' = nmsgs /\ last' = last]_vars
    /\ (Stopping ~> pc = "stopped")

\* stopped from the retry loop, after two failed attempts and no session
C16_Witness ==
    /\ pc = "stopped"
    /\ Len(slept) = 2
    /\ sessions = 0
    /\ session = "closed"
    /\ \A i \in Sinks : storage_handlers[i].closed

\* C17: whenever on_message has returned, whatever the message was and whichever
\* call of a sink operation (ensure_device_exists, ensure_sensor_exists,
\* get_sensor_id, store_sensor_data) failed while it was processed, no sink has
\* a connection checked out of its pool.
C17_ConnectionsReturned ==
    \A i \in Sinks : storage_handlers[i].checked_out = 0

\* a reading whose INSERT failed in the first sink after a sensor was created
\* on demand: three checkouts in that sink, none left
C17_Witness ==
    /\ IsSensorData(last)
    /\ last.faults[1] = "insert185"
    /\ nmsgs = 1
    /\ Cardinality(storage_handlers[1].sensors) = 1
    /\ Len(storage_handlers[1].measurements) = 0
    /\ storage_handlers[1].checked_out = 0

IsErrorReport(m) ==
    /\ m.handler = "handle_error"
    /\ m.raw \in {Json(ErrorDoc(sev)) : sev \in Severities}
SeverityOf(m) == DictGet(DictGet(DocOf(m), "value", EmptyDict), "severity", Num(0)).v

\* C18: for every integer severity of an error message handle_error raises
\* nothing and produces a label: the label of that index for 0..3 and CRITICAL
\* for every severity above 3 or below 0.
C18_SeverityClamped ==
    IsErrorReport(last)
    => /\ ~last.caught
       /\ last.label = IF 0 <= SeverityOf(last) /\ SeverityOf(last) <= 3
                       THEN severity_labels[SeverityOf(last) + 1]
                       ELSE "CRITICAL"

CreateFaults == {"select87", "insert99", "commit106"}
\* sink i of state hs can neither find nor create the sensor of message m:
\* no cache entry, no row, and the creation fails
SecondMiss(hs, m, i) ==
    /\ m.faults[i] \in CreateFaults
    /\ CacheEntry(hs[i], m.topic[2], m.topic[4]) = {}
    /\ SelectSensorRows(hs[i], m.topic[2], m.topic[4]) = {}

\* C19: when a sink can neither find nor create the sensor of a data message it
\* stores no measurement of that message and creates no sensor row, nothing is
\* raised to handle_sensor_data or the router, every sink is still invoked and
\* the other sinks store the message; and the same reading sent again without
\* a fault is stored by every sink.
C19_ResolutionFailureDiscards ==
    [][(IsSensorData(last') /\ TimestampUsable(last'))
       => /\ \A i \in Sinks :
                SecondMiss(storage_handlers, last', i)
                => /\ Added(i) = 0
                   /\ storage_handlers'[i].sensors = storage_handlers[i].sensors
                   /\ ~last'.caught /\ ~last'.escaped
                   /\ last'.invoked = Sinks
                   /\ \A j \in Sinks \ {i} :
                         Added(j) = Cardinality(Readings(last'))
          /\ (/\ IsSensorData(last) /\ TimestampUsable(last)
              /\ last'.topic = last.topic
              /\ last'.faults = NoFaults
              /\ \E i \in Sinks : last.faults[i] \in CreateFaults
                                   /\ SecondMiss(storage_handlers,
                                                 [last' EXCEPT !.faults = last.faults], i))
             => \A i \in Sinks : Added(i) = Cardinality(Readings(last'))
      ]_vars

\* the first sink failed the commit of the sensor it created for the first
\* reading and discarded it; the second reading it stored under a new sensor
C19_Witness ==
    /\ nmsgs = 2
    /\ IsSensorData(last)
    /\ last.faults = NoFaults
    /\ last.raw = Json(DataFull)
    /\ storage_handlers[1].next_sensor_id = 3
    /\ Cardinality(storage_handlers[1].sensors) = 1
    /\ Len(storage_handlers[1].measurements) = 2
    /\ Len(storage_handlers[2].measurements) = 4

SensorDataTopic(topic) ==
    IF Len(topic) = 5 THEN topic[3] = "sensors" /\ topic[5] = "data" ELSE FALSE
SensorsKind(topic) ==
    IF Len(topic) >= 3 THEN topic[3] = "sensors" ELSE FALSE

\* C20: on_message dispatches a message to handle_sensor_data only if its topic
\* is devices/<device>/sensors/<kind>/data, and a message whose topic has kind
\* sensors but no fourth segment, or no fifth segment, or a fifth segment other
\* than data, reaches no handler and leaves every sink as it was.
C20_SensorTopicShape ==
    [][/\ IsSensorData(last') => SensorDataTopic(last'.topic)
       /\ (nmsgs' = nmsgs + 1 /\ SensorsKind(last'.topic)
             /\ ~SensorDataTopic(last'.topic))
          => /\ last'.handler = "none"
             /\ storage_handlers' = storage_handlers
      ]_vars

\* C21: when one sink's ensure_device_exists or ensure_sensor_exists fails while
\* a capabilities message is processed (a failure to obtain a connection
\* included), every other sink still holds, after the message, the device row
\* of the announcement and one sensor row per declared kind.
C21_RegistrationIsolation ==
    [][(IsCapabilities(last') /\ last'.raw \in CapPayloads)
       => \A i \in Sinks :
             last'.faults[i] = "none"
             => /\ DeviceRows(storage_handlers'[i], last'.topic[2])
                     = {DeviceRow(last'.topic[2], DocOf(last'))}
                /\ \A k \in DeclaredKinds(last') :
                      Cardinality(SelectSensorRows(storage_handlers'[i],
                                                   last'.topic[2], k)) = 1
      ]_vars

HandlerOfKind(topic) ==
    IF Len(topic) < 3 THEN "none"
    ELSE CASE topic[3] = "capabilities" -> "handle_capabilities"
           [] topic[3] = "sensors" -> "handle_sensor_data"
           [] topic[3] = "status" -> "handle_status"
           [] topic[3] = "error" -> "handle_error"
           [] OTHER -> "none"

\* C22: every message given to on_message is dispatched to no handler or to the
\* one handler its third topic segment selects, and only when the payload is
\* JSON; the rows the handler adds belong to the device of the second segment,
\* and no effect of another handler appears: only handle_sensor_data adds
\* measurements, only handle_capabilities changes device rows, and a message
\* dispatched to neither leaves every sink as it was.
C22_SingleDispatch ==
    [][nmsgs' = nmsgs + 1
       => /\ last'.handler \in {"none", HandlerOfKind(last'.topic)}
          /\ last'.handler /= "none"
             => /\ last'.raw.ok
                /\ \A i \in Sinks :
                      /\ \A r \in storage_handlers'[i].devices
                                    \ storage_handlers[i].devices :
                            r.device_id = last'.topic[2]
                      /\ \A r \in storage_handlers'[i].sensors
                                    \ storage_handlers[i].sensors :
                            r.device_id = last'.topic[2]
          /\ last'.handler /= "handle_sensor_data"
             => \A i \in Sinks : Added(i) = 0
          /\ last'.handler /= "handle_capabilities"
             => \A i \in Sinks :
                   storage_handlers'[i].devices = storage_handlers[i].devices
          /\ last'.handler \notin {"handle_capabilities", "handle_sensor_data"}
             => storage_handlers' = storage_handlers
      ]_vars

\* an announcement of device a_b after a reading of device a: each went to its
\* own handler and touched its own device only
C22_Witness ==
    /\ nmsgs = 2
    /\ last.handler = "handle_capabilities"
    /\ last.topic[2] = "a_b"
    /\ last.faults = NoFaults
    /\ \A i \in Sinks :
          /\ {r.device_id : r \in storage_handlers[i].devices} = {"a_b"}
          /\ {r.device_id : r \in storage_handlers[i].sensors} = {"a", "a_b"}
          /\ Len(storage_handlers[i].measurements) = 2

\* sink i has run ensure_device_exists of message m to its commit
DeviceUpserted(m, i) ==
    /\ IsCapabilities(m)
    /\ m.raw \in CapPayloads
    /\ m.faults[i] \notin {"getconn53", "execute61"}
    /\ \A j \in 1..(i - 1) : m.faults[j] /= "getconn53"

\* C23: after a sink has processed the device upsert of a capabilities message
\* successfully it holds exactly one row for that device, with the name,
\* location and firmware of that message; a message whose upsert the sink did
\* not complete, and any other message, leaves the device rows as they were;
\* no step removes the row of a device.
C23_LastWriterWins ==
    [][\A i \in Sinks :
          /\ DeviceUpserted(last', i)
             => /\ DeviceRows(storage_handlers'[i], last'.topic[2])
                     = {DeviceRow(last'.topic[2], DocOf(last'))}
                /\ \A r \in storage_handlers[i].devices :
                      r.device_id /= last'.topic[2]
                      => r \in storage_handlers'[i].devices
          /\ ~DeviceUpserted(last', i)
             => storage_handlers'[i].devices = storage_handlers[i].devices
          /\ {r.device_id : r \in storage_handlers[i].devices}
               \subseteq {r.device_id : r \in storage_handlers'[i].devices}
      ]_vars

\* two different announcements of device a: the second one's fields are kept
C23_Witness ==
    /\ nmsgs = 2
    /\ last.raw = Json(CapTwo)
    /\ last.topic[2] = "a"
    /\ \A i \in Sinks :
          /\ storage_handlers[i].devices = {DeviceRow("a", CapTwo)}
          /\ \E s \in storage_handlers[i].sensors : s.location = Str("desk")

\* C24: a sensor row that exists in a sink stays in it unchanged, with its id,
\* location and metadata, through every later message, and no second row for
\* its (device, kind) is added, whatever metadata a later announcement carries.
C24_SensorRowsImmutable ==
    [][\A i \in Sinks : \A r \in storage_handlers[i].sensors :
          SelectSensorRows(storage_handlers'[i], r.device_id, r.sensor_type)
            = SelectSensorRows(storage_handlers[i], r.device_id, r.sensor_type)
      ]_vars

\* a sensor created on demand, then announced with a location: the row keeps
\* the location and metadata it was created with
C24_Witness ==
    /\ nmsgs = 2
    /\ last.raw = Json(CapOne)
    /\ last.faults = NoFaults
    /\ \A i \in Sinks :
          /\ Len(storage_handlers[i].measurements) > 0
          /\ \E s \in storage_handlers[i].sensors :
                /\ storage_handlers[i].sensors = {s}
                /\ s.device_id = last.topic[2]
                /\ s.location = Str("unknown")
                /\ s.metadata = Null

FaultFreeData(m) == IsSensorData(m) /\ TimestampUsable(m) /\ m.faults = NoFaults
\* the sinks that hold a row for the sensor of message m, in list order
Holders(hs, m) ==
    {j \in 1..Len(hs) : SelectSensorRows(hs[j], m.topic[2], m.topic[4]) /= {}}
FirstHolder(hs, m) == CHOOSE j \in Holders(hs, m) : \A q \in Holders(hs, m) : j <= q

C26_CacheAppendOnly ==
    [][\A i \in Sinks :
          DOMAIN storage_handlers[i].sensor_id_cache
            \subseteq DOMAIN storage_handlers'[i].sensor_id_cache
      ]_vars

\* two announcements of two kinds each: three keys, one of them written twice
C26_Witness ==
    /\ nmsgs = 2
    /\ IsCapabilities(last)
    /\ \A i \in Sinks :
          /\ Cardinality(DOMAIN storage_handlers[i].sensor_id_cache) = 3
          /\ Cardinality(storage_handlers[i].sensors) = 4

\* C27: a message dispatched to handle_status or handle_error leaves every
\* sink's devices, sensors, measurements, cache and pool as they were and
\* invokes no sink.
C27_StatusErrorNoPersistence ==
    [][(nmsgs' = nmsgs + 1 /\ last'.handler \in {"handle_status", "handle_error"})
       => /\ storage_handlers' = storage_handlers
          /\ last'.invoked = {}
      ]_vars

\* an error report logged as CRITICAL after a reading was stored: the sinks
\* hold the reading and nothing else
C27_Witness ==
    /\ nmsgs = 2
    /\ last.handler = "handle_error"
    /\ last.label = "CRITICAL"
    /\ \A i \in Sinks :
          /\ Len(storage_handlers[i].measurements) = 2
          /\ storage_handlers[i].devices = {}

\* C28: a failed connection attempt keeps connect_with_retry in its loop, having
\* slept the delay that was current; connect_with_retry is left only by a
\* connect call that returned, towards loop_forever; and when some connect call
\* eventually succeeds, connect_with_retry eventually returns.
C28_RetryNeverGivesUp ==
    /\ [][Len(slept') = Len(slept) + 1
            => /\ pc' = "retry"
               /\ slept'[Len(slept')] = reconnect_delay]_vars
    /\ [][(pc = "retry" /\ pc' /= "retry")
            => /\ pc' = "loop"
               /\ session' = "connack"
               /\ slept' = slept]_vars
    /\ (pc = "retry" ~> pc = "loop")

\* six failed attempts, the last two at the maximum delay, then a connection
C28_Witness ==
    /\ Len(slept) = 6
    /\ slept[6] = 60
    /\ pc = "loop"
    /\ session = "connack"

RowsWithId(h, id) == {s \in h.sensors : s.sensor_id = id}

\* C29: in every sink, for every (device, kind), a lookup that returns an id
\* returns the id of a sensor row of that very (device, kind): no two distinct
\* pairs share a cache entry, also when an id or a kind contains '_'.
C29_CacheKeyInjective ==
    \A i \in Sinks : \A d \in DeviceIds, k \in SensorTypes :
        get_sensor_id(storage_handlers[i], "none", d, k).ret /= 0
        => \E s \in RowsWithId(storage_handlers[i],
                               get_sensor_id(storage_handlers[i], "none", d, k).ret) :
              s.device_id = d /\ s.sensor_type = k

\* the INSERT or commit fault of sink i fires while message m is stored
InsertFails(m, i) ==
    \/ m.faults[i] = "commit190"
    \/ m.faults[i] = "insert185" /\ Cardinality(Readings(m)) >= 1
    \/ m.faults[i] = "insert185second" /\ Cardinality(Readings(m)) >= 2

\* C30: a sink stores either every measurement row of a sensor-data message or
\* none of them; when the insert of any metric or the commit fails it stores
\* none; and the rows it held before the message stay as they were.
C30_ReadingAtomic ==
    [][(IsSensorData(last') /\ TimestampUsable(last'))
       => \A i \in Sinks :
             /\ Added(i) \in {0, Cardinality(Readings(last'))}
             /\ InsertFails(last', i) => Added(i) = 0
             /\ SubSeq(storage_handlers'[i].measurements, 1,
                       Len(storage_handlers[i].measurements))
                  = storage_handlers[i].measurements
      ]_vars

\* the second INSERT of a reading of two metrics fails in the first sink, which
\* keeps the two rows of the reading before and none of this one
C30_Witness ==
    /\ nmsgs = 2
    /\ IsSensorData(last)
    /\ last.faults[1] = "insert185second"
    /\ Cardinality(Readings(last)) = 2
    /\ Len(storage_handlers[1].measurements) = 2
    /\ Len(storage_handlers[2].measurements) = 4

\* the fault of sink i makes ensure_sensor_exists roll back
SensorFaults == {"select87", "insert99", "commit106"}
\* the keys of sink i's cache that the step wrote: new, or with another id
CacheWritten(i) ==
    {k \in DOMAIN storage_handlers'[i].sensor_id_cache :
        k \in DOMAIN storage_handlers[i].sensor_id_cache
        => storage_handlers'[i].sensor_id_cache[k]
             /= storage_handlers[i].sensor_id_cache[k]}

\* C31: every entry of a sink's cache names the id of a sensor row that the
\* sink's store holds; a message whose SELECT, INSERT or commit of
\* ensure_sensor_exists fails leaves the sink's sensor rows as they were and
\* writes into the cache only ids of rows read from the store; an announcement
\* whose SELECT fails leaves the cache as it was.
C31_CacheCommitted ==
    /\ [](\A i \in Sinks : \A k \in DOMAIN storage_handlers[i].sensor_id_cache :
             RowsWithId(storage_handlers[i],
                        storage_handlers[i].sensor_id_cache[k]) /= {})
    /\ [][\A i \in Sinks :
             (nmsgs' = nmsgs + 1 /\ last'.faults[i] \in SensorFaults)
             => /\ storage_handlers'[i].sensors = storage_handlers[i].sensors
                /\ \A k \in CacheWritten(i) :
                      RowsWithId(storage_handlers[i],
                                 storage_handlers'[i].sensor_id_cache[k]) /= {}
                /\ (IsCapabilities(last') /\ last'.faults[i] = "select87")
                   => storage_handlers'[i].sensor_id_cache
                        = storage_handlers[i].sensor_id_cache
         ]_vars

\* the commit of a new sensor row fails in the first sink: the serial is spent,
\* the sink holds neither the row nor a cache entry, the second sink holds both
C31_Witness ==
    /\ nmsgs = 1
    /\ last.faults[1] = "commit106"
    /\ storage_handlers[1].next_sensor_id > 1
    /\ storage_handlers[1].sensors = {}
    /\ storage_handlers[1].sensor_id_cache = <<>>
    /\ storage_handlers[2].sensors /= {}
    /\ DOMAIN storage_handlers[2].sensor_id_cache /= {}

\* C32: no sink's pool ever has more than one connection checked out, so the
\* number checked out stays below the pool's limit of 10 and no getconn of the
\* collector finds the pool exhausted.
C32_OneConnectionPerSink ==
    \A i \in Sinks :
        /\ storage_handlers[i].checked_out <= storage_handlers[i].max_used
        /\ storage_handlers[i].max_used <= 1
        /\ storage_handlers[i].max_used < maxconn

\* a reading of an unknown sensor stored by every sink: lookup, creation,
\* second lookup and the inserts each checked a connection out, one at a time
C32_Witness ==
    /\ nmsgs = 1
    /\ IsSensorData(last)
    /\ last.faults = NoFaults
    /\ \A i \in Sinks :
          /\ Cardinality(storage_handlers[i].sensors) = 1
          /\ Len(storage_handlers[i].measurements) = 2
          /\ storage_handlers[i].max_used = 1
          /\ storage_handlers[i].checked_out = 0

\* C33: connected is true exactly when the last of the on_connect and
\* on_disconnect calls was an on_connect with reason code 0 (it is false before
\* the first call); an on_connect with another reason code leaves it false,
\* subscribes to nothing and keeps the retry delay; every on_disconnect, with
\* reason code 0 or not, leaves it false.
C33_ConnectedTracksSession ==
    /\ [](connected <=> (conn_log.event = "on_connect" /\ conn_log.rc = 0))
    /\ [][(conn_log'.event = "on_connect" /\ conn_log'.rc /= 0 /\ session' /= session)
            => /\ ~connected'
               /\ subscribed' = subscribed
               /\ reconnect_delay' = reconnect_delay]_vars
    /\ [][(conn_log'.event = "on_disconnect" /\ session' /= session)
            => ~connected']_vars
    /\ [][conn_log' /= conn_log => session' /= session]_vars

\* three failed attempts, a connection that was refused (no session was ever
\* up), then a clean disconnect: the delay is still 40, nothing is subscribed
C33_Witness ==
    /\ conn_log = [event |-> "on_disconnect", rc |-> 0, delay |-> 40]
    /\ reconnect_delay = 40
    /\ sessions = 0
    /\ session = "down"
    /\ subscribed = {}
    /\ ~connected

CleanupRan == cleanup.pc = "main" /\ cleanup'.pc /= "main"
\* the entries of the folder that the run removed
Removed ==
    {i \in 1..Len(folder.entries) :
        \A j \in 1..Len(folder'.entries) :
            folder'.entries[j].name /= folder.entries[i].name}
\* the entry's own age is over the limit
OverAge(e) == clock - e.lmtime > MAX_AGE_SECONDS
\* examining or removing the entry fails
FailureOn(e) ==
    \/ e.fault = "is_file"
    \/ is_file(e) /\ e.fault = "stat"
    \/ is_file(e) /\ e.fault = "unlink" /\ clock - e.mtime > MAX_AGE_SECONDS

\* C34: a run of cleanup_old_files on a directory returns a result; what it
\* removed are regular files of the folder whose age is over max_age_seconds,
\* and every such file whose removal does not fail is removed; failed counts
\* the entries on which a call failed, the entries after a failure are
\* processed all the same, and deleted counts the entries removed.  On a path
\* that is missing or no directory the result carries an error and zero counts
\* and the path is left as it was.
C34_CleanupExact ==
    [][CleanupRan
       => IF folder.exists /\ folder.is_dir
          THEN /\ ~cleanup'.raised
               /\ \A i \in Removed :
                     /\ folder.entries[i].kind = "file"
                     /\ OverAge(folder.entries[i])
               /\ \A i \in 1..Len(folder.entries) :
                     (/\ folder.entries[i].kind = "file"
                      /\ OverAge(folder.entries[i])
                      /\ folder.entries[i].fault = "none") => i \in Removed
               /\ cleanup'.result.failed =
                     Cardinality({i \in 1..Len(folder.entries) :
                                     FailureOn(folder.entries[i])})
               /\ cleanup'.result.deleted = Cardinality(Removed)
          ELSE /\ ~cleanup'.raised
               /\ "error" \in DOMAIN cleanup'.result
               /\ cleanup'.result.deleted = 0
               /\ cleanup'.result.failed = 0
               /\ folder' = folder
      ]_vars

CycleRan == inspector'.cycles = inspector.cycles + 1
\* the device has no measurement, or its latest is older than the threshold
Stale(h, device_id, now) ==
    \/ get_latest_message_time(h, device_id) = Null
    \/ get_latest_message_time(h, device_id).v < now - INACTIVITY_THRESHOLD
PostsFor(c, device_id) ==
    {n \in 1..Len(c.sent) : c.sent[n].device_id = device_id}
DeliveredFor(c, device_id) ==
    {n \in PostsFor(c, device_id) : c.sent[n].delivered}

\* C35: a check cycle sends exactly one notification for every device that has
\* no measurement or whose latest measurement is older than now minus
\* INACTIVITY_THRESHOLD, sends none for any other device, and has closed the
\* connection it opened, whether it succeeded or failed.
C35_NotifyEachInactive ==
    [][CycleRan
       => /\ \A row \in get_devices(storage_handlers[1]) :
                IF Stale(storage_handlers[1], row.device_id, clock)
                THEN Cardinality(DeliveredFor(inspector'.cycle, row.device_id)) = 1
                ELSE PostsFor(inspector'.cycle, row.device_id) = {}
          /\ inspector'.cycle.closed = inspector'.cycle.opened
      ]_vars

\* C35 (amended): a check cycle that completes has called send_notification
\* exactly once for every device that has no measurement or whose latest
\* measurement is strictly older than now minus INACTIVITY_THRESHOLD; a cycle
\* that an exception leaves has called it at most once for such a device; no
\* cycle calls it for any other device; a POST that fails is neither retried nor
\* reported; and every cycle has closed the connection it opened.
C35_NotifyAttempted ==
    [][CycleRan
       => /\ \A row \in get_devices(storage_handlers[1]) :
                /\ Cardinality(PostsFor(inspector'.cycle, row.device_id)) <= 1
                /\ PostsFor(inspector'.cycle, row.device_id) /= {}
                   => Stale(storage_handlers[1], row.device_id, clock)
                /\ (/\ inspector'.cycle.raised = "none"
                    /\ Stale(storage_handlers[1], row.device_id, clock))
                   => PostsFor(inspector'.cycle, row.device_id) /= {}
          /\ \A n \in 1..Len(inspector'.cycle.sent) :
                \E row \in get_devices(storage_handlers[1]) :
                    row.device_id = inspector'.cycle.sent[n].device_id
          /\ inspector'.cycle.closed = inspector'.cycle.opened
          /\ inspector'.cycle.raised = "none" => inspector'.cycle.opened = 1
          /\ (inspector'.cycle.raised = "none"
                /\ \E n \in 1..Len(inspector'.cycle.sent) :
                      ~inspector'.cycle.sent[n].delivered)
             => inspector'.pc = "sleep145"
      ]_vars

\* two devices announced, one of them with a reading that is exactly
\* INACTIVITY_THRESHOLD old: a complete cycle posted once, for the other
C35_Witness ==
    /\ inspector.cycles = 1
    /\ inspector.cycle.raised = "none"
    /\ Cardinality(storage_handlers[1].devices) = 2
    /\ get_latest_message_time(storage_handlers[1], "a_b")
         = Num(inspector.cycle.now - INACTIVITY_THRESHOLD)
    /\ Len(inspector.cycle.sent) = 1
    /\ inspector.cycle.sent[1].device_id = "a"
    /\ inspector.cycle.sent[1].text = "never sent data"
    /\ inspector.cycle.sent[1].delivered

LoopPcs == {"check144", "sleep145", "sleep151"}

\* C36: a check cycle that raises an exception leaves main() in its loop, in the
\* sleep of the except clause; from that sleep the loop goes to the next cycle,
\* CHECK_INTERVAL later, unless a keyboard interrupt arrives; and the loop is
\* left by a keyboard interrupt only.
C36_LoopKeepsRunning ==
    /\ [][(CycleRan /\ inspector'.cycle.raised = "Exception")
            => inspector'.pc = "sleep151"]_vars
    /\ [][(inspector.pc = "sleep151" /\ inspector'.pc = "check144")
            => /\ clock' = clock + CHECK_INTERVAL
               /\ inspector'.cycles = inspector.cycles]_vars
    /\ [][(inspector.pc \in LoopPcs /\ inspector'.pc \notin LoopPcs)
            => inspector'.ended_by = "KeyboardInterrupt"]_vars
    /\ (inspector.pc = "sleep151"
          ~> (inspector.pc = "check144" \/ inspector.ended_by = "KeyboardInterrupt"))

\* the first cycle failed after a notification, main() slept CHECK_INTERVAL and
\* is about to run the second cycle
C36_Witness ==
    /\ inspector.pc = "check144"
    /\ inspector.cycles = 1
    /\ inspector.sleeps = 1
    /\ inspector.cycle.raised = "Exception"
    /\ Len(inspector.cycle.sent) = 1
    /\ clock = inspector.cycle.now + CHECK_INTERVAL
    /\ inspector.ended_by = "none"

=============================================================================
